---- MODULE Spec2Model ----
(***************************************************************************)
(* A model of dockworker's parsing and resolution core:                    *)
(*   - ComposeConfig::resolve_service_order  (src/src/config/compose.rs)   *)
(*   - substitute_env_vars                   (src/src/parser/env.rs)       *)
(*   - ComposeConfig::process_environment    (src/src/config/compose.rs)   *)
(*   - the Dockerfile parser and renderer    (src/src/parser/docker_file.rs*)
(*                                            src/src/config/docker_file.rs)*)
(*                                                                         *)
(* Text is a sequence of characters, each a one-character string, so that  *)
(* the scanning, splitting and trimming of the code is computed, not       *)
(* assumed.  In the Dockerfile part a word without any character the       *)
(* parser looks at ("FROM", "80", "app") is one element of the sequence.   *)
(***************************************************************************)
EXTENDS Integers, Sequences, FiniteSets, TLC

VARIABLES
    \* ---- resolve_service_order
    services,      \* ComposeConfig.services: name -> [depends_on : Seq(name)]
    ro_pc,         \* "idle" | "loop" | "done"
    remaining,     \* keys of services the for-loop has not yet yielded
    stack,         \* the recursion stack of visit: frames [node, next]
    visited,       \* HashSet visited
    temp_visited,  \* HashSet temp_visited
    result,        \* Vec result
    ret,           \* the returned Result
    expanded,      \* how often each name's dependency list was expanded
    \* ---- substitute_env_vars
    sub_segs,      \* the input text, as the pieces it is written from
    sub_vars,      \* env_vars
    sub_cur,       \* result
    sub_pc,        \* "idle" | "default" | "curly" | "bare" | "done"
    \* ---- process_environment
    pe_sys,        \* std::env::vars(): the process environment
    pe_common,     \* the *.env files of envs/common, in directory order
    pe_fs,         \* the files that can be read: path -> parsed content
    pe_input,      \* the services as process_environment is given them
    pe_services,   \* ComposeConfig.services: name -> [env_file, environment]
    pe_order,      \* the iteration order of the services HashMap
    env_vars,      \* the local env_vars
    pe_loaded,     \* the contents of the env_files read so far
    pe_pc,         \* "idle" | "common" | "envfiles" | "inline" | "validate" | "done"
    pe_ret,        \* the returned Result
    \* ---- the Dockerfile parser and renderer
    df_input,      \* the text given to parse, as physical lines
    df_lines,      \* content.lines() of the running parse
    df_i,          \* the index of the line the for-loop is at
    config,        \* the local config of parse
    current_command, \* the local current_command of parse
    df_pass,       \* 1: parse of the input, 2: parse of the rendered text
    df_pc,         \* "idle" | "loop" | "render" | "done"
    df_ret,        \* the result of parse(input)
    df_again,      \* the result of parse(render(document))
    dispatched,    \* the logical lines handed to parse_command in this pass
    before,        \* config as it was when the last line was dispatched
    \* ---- a service volume read, written and read again
    vol_input,     \* what the manifest gives: a string, a long map or null
    vol_value,     \* the result of deserializing vol_input
    vol_text,      \* what serializing the value emits
    vol_again,     \* the result of deserializing vol_text
    vol_pc,        \* "idle" | "input" | "value" | "text" | "done"
    \* ---- ComposeConfig: volumes and required names
    cfg_services,  \* ComposeConfig.services: name -> [volumes, environment]
    cfg_written,   \* ComposeConfig.volumes as the manifest has it
    cfg_volumes,   \* ComposeConfig.volumes
    cfg_order,     \* the order in which collect_volumes iterated the services
    cfg_call,      \* the validation called last, with its argument
    cfg_ret,       \* what that call returned
    cfg_pc,        \* "idle" | "parsed" | "collected" | "done"
    \* ---- parse_memory_string
    mem_input,     \* the argument memory
    mem_ret,       \* the returned Result, or a panic
    mem_pc,        \* "idle" | "call" | "done"
    \* ---- resolve_env
    res_doc,       \* the document: services and top-level volumes
    res_vars,      \* the vars map passed to resolve_env
    res_envs,      \* the process environments of the two runs
    res_out,       \* the resolved documents of the runs made so far
    res_pc,        \* "idle" | "first" | "second" | "done"
    \* ---- deploy_compose_with_base_dir
    dp_volumes,    \* config.volumes
    dp_todo,       \* the entries of config.volumes the loop has not yet yielded
    dp_order,      \* service_order, from the service deployed next
    dp_step,       \* deploy_service: "create" | "start"
    dp_log,        \* the requests sent to the runtime, with their outcomes
    container_ids, \* HashMap container_ids
    dp_ret,        \* the returned Result, or a panic
    dp_pc,         \* "idle" | "network" | "volumes" | "order" | "services" | "done"
    \* ---- create_network_with_retry
    max_retries,   \* the argument max_retries
    attempts,      \* the local attempts
    delay,         \* the local delay: NoDelay, or the exponent of its seconds
    nw_log,        \* the outcomes of the create_network requests sent
    nw_ret,        \* the returned Result, or a panic
    nw_pc,         \* "idle" | "loop" | "sleep" | "done"
    \* ---- Container
    ct_id,         \* Container.id
    ct_owned,      \* the caller still has the Container (remove takes it)
    ct_log,        \* the requests sent to the runtime, with their outcomes
    ct_call,       \* the call made last, and the state it was made in
    ct_ret,        \* what that call returned
    ct_calls       \* the number of calls made

order_vars == <<services, ro_pc, remaining, stack, visited, temp_visited,
                result, ret, expanded>>

sub_state == <<sub_segs, sub_vars, sub_cur, sub_pc>>

pe_state == <<pe_sys, pe_common, pe_fs, pe_input, pe_services, pe_order, env_vars,
              pe_loaded, pe_pc, pe_ret>>

df_state == <<df_input, df_lines, df_i, config, current_command, df_pass, df_pc,
              df_ret, df_again, dispatched, before>>

vol_state == <<vol_input, vol_value, vol_text, vol_again, vol_pc>>

cfg_state == <<cfg_services, cfg_written, cfg_volumes, cfg_order, cfg_call, cfg_ret,
               cfg_pc>>

mem_state == <<mem_input, mem_ret, mem_pc>>

res_state == <<res_doc, res_vars, res_envs, res_out, res_pc>>

dp_state == <<dp_volumes, dp_todo, dp_order, dp_step, dp_log, container_ids, dp_ret, dp_pc>>

nw_state == <<max_retries, attempts, delay, nw_log, nw_ret, nw_pc>>

ct_state == <<ct_id, ct_owned, ct_log, ct_call, ct_ret, ct_calls>>

vars == <<order_vars, sub_state, pe_state, df_state,
         vol_state, cfg_state, mem_state, res_state,
         dp_state, nw_state, ct_state>>

(***************************************************************************)
(* Generic helpers                                                         *)
(***************************************************************************)
SeqsUpTo(S, n) == UNION {[1..k -> S] : k \in 0..n}

Range(s) == {s[i] : i \in 1..Len(s)}

IndexOf(s, x) == CHOOSE i \in 1..Len(s) : s[i] = x

(***************************************************************************)
(* resolve_service_order                                                   *)
(***************************************************************************)
ServiceNames == {"a", "b", "c"}

\* the total number of depends_on entries of a service map
MaxEdges == 3

CircularMsg == "Circular dependency detected"

\* the depends_on list of s, given the edges in the order they are written
DepsFrom(edges, s) ==
    LET mine == SelectSeq(edges, LAMBDA e : e[1] = s)
    IN  [i \in 1..Len(mine) |-> mine[i][2]]

\* a service map: the declared names D and their depends_on lists; a name of
\* ServiceNames outside D is a dependency on a service that is not declared
ServiceMap(D, edges) == [s \in D |-> [depends_on |-> DepsFrom(edges, s)]]

ServiceMaps ==
    {ServiceMap(D, e) : D \in SUBSET ServiceNames,
                        e \in SeqsUpTo(ServiceNames \X ServiceNames, MaxEdges)}

\* graph.get(node): the dependency list, None (no dependencies) when the node
\* is not a key of the graph
GraphGet(node) ==
    IF node \in DOMAIN services THEN services[node].depends_on ELSE <<>>

OrderStart ==
    /\ services \in ServiceMaps
    /\ ro_pc = "loop"
    /\ remaining = DOMAIN services
    /\ stack = <<>>
    /\ visited = {}
    /\ temp_visited = {}
    /\ result = <<>>
    /\ ret = [tag |-> "Pending"]
    /\ expanded = [n \in ServiceNames |-> 0]

\* the resolver touches nothing but its own locals
OrderFrame ==
    UNCHANGED <<sub_state, pe_state, df_state, vol_state,
                cfg_state, mem_state, res_state, dp_state,
                nw_state, ct_state>>

\* visit without the visited test
visitAgain(node, stk) ==
    IF node \in temp_visited
    THEN /\ ret' = [tag |-> "Err", msg |-> CircularMsg]
         /\ ro_pc' = "done"
         /\ stack' = <<>>
         /\ UNCHANGED <<visited, temp_visited, result, expanded>>
    ELSE /\ temp_visited' = temp_visited \cup {node}
         /\ stack' = Append(stk, [node |-> node, next |-> 1])
         /\ expanded' = [expanded EXCEPT ![node] = @ + 1]
         /\ UNCHANGED <<ret, ro_pc, visited, result>>

\* the entry of visit(node) called with the recursion stack stk: the
\* temp_visited test, the visited test, and the marking of the node
visit(node, stk) ==
    IF node \in temp_visited
    THEN /\ ret' = [tag |-> "Err", msg |-> CircularMsg]
         /\ ro_pc' = "done"
         /\ stack' = <<>>
         /\ UNCHANGED <<visited, temp_visited, result, expanded>>
    ELSE IF node \in visited
    THEN /\ stack' = stk
         /\ UNCHANGED <<ret, ro_pc, visited, temp_visited, result, expanded>>
    ELSE /\ temp_visited' = temp_visited \cup {node}
         /\ stack' = Append(stk, [node |-> node, next |-> 1])
         /\ expanded' = [expanded EXCEPT ![node] = @ + 1]
         /\ UNCHANGED <<ret, ro_pc, visited, result>>

\* for service in self.services.keys(): the iteration order of the HashMap is
\* arbitrary; a key already visited is skipped
RootStep ==
    /\ OrderFrame
    /\ ro_pc = "loop"
    /\ stack = <<>>
    /\ \E s \in remaining :
         /\ remaining' = remaining \ {s}
         /\ IF s \in visited
            THEN UNCHANGED <<stack, visited, temp_visited, result, ret, ro_pc,
                             expanded>>
            ELSE visit(s, stack)
    /\ UNCHANGED services

\* for &dep in deps: the next dependency of the frame on top of the stack
DepStep ==
    /\ OrderFrame
    /\ ro_pc = "loop"
    /\ stack # <<>>
    /\ LET top  == stack[Len(stack)]
           deps == GraphGet(top.node)
       IN  /\ top.next <= Len(deps)
           /\ visit(deps[top.next],
                    [stack EXCEPT ![Len(stack)].next = top.next + 1])
    /\ UNCHANGED <<services, remaining>>

\* FinishStep with the node inserted at the front of result
FinishStepPrepend ==
    /\ OrderFrame
    /\ ro_pc = "loop"
    /\ stack # <<>>
    /\ LET top == stack[Len(stack)]
       IN  /\ top.next > Len(GraphGet(top.node))
           /\ temp_visited' = temp_visited \ {top.node}
           /\ visited' = visited \cup {top.node}
           /\ result' = <<top.node>> \o result
           /\ stack' = SubSeq(stack, 1, Len(stack) - 1)
    /\ UNCHANGED <<services, remaining, ret, ro_pc, expanded>>

\* FinishStep without temp_visited.remove(node)
FinishStepKeepTemp ==
    /\ OrderFrame
    /\ ro_pc = "loop"
    /\ stack # <<>>
    /\ LET top == stack[Len(stack)]
       IN  /\ top.next > Len(GraphGet(top.node))
           /\ visited' = visited \cup {top.node}
           /\ result' = Append(result, top.node)
           /\ stack' = SubSeq(stack, 1, Len(stack) - 1)
    /\ UNCHANGED <<services, remaining, ret, ro_pc, expanded, temp_visited>>

\* the end of visit: the node leaves temp_visited, enters visited and is
\* pushed on result
FinishStep ==
    /\ OrderFrame
    /\ ro_pc = "loop"
    /\ stack # <<>>
    /\ LET top == stack[Len(stack)]
       IN  /\ top.next > Len(GraphGet(top.node))
           /\ temp_visited' = temp_visited \ {top.node}
           /\ visited' = visited \cup {top.node}
           /\ result' = Append(result, top.node)
           /\ stack' = SubSeq(stack, 1, Len(stack) - 1)
    /\ UNCHANGED <<services, remaining, ret, ro_pc, expanded>>

\* Ok(result)
ReturnOk ==
    /\ OrderFrame
    /\ ro_pc = "loop"
    /\ stack = <<>>
    /\ remaining = {}
    /\ ret' = [tag |-> "Ok", order |-> result]
    /\ ro_pc' = "done"
    /\ UNCHANGED <<services, remaining, stack, visited, temp_visited, result,
                   expanded>>

SubIdle ==
    /\ sub_segs = <<>>
    /\ sub_vars = <<>>
    /\ sub_cur = <<>>
    /\ sub_pc = "idle"

PeIdle ==
    /\ pe_sys = <<>>
    /\ pe_common = <<>>
    /\ pe_fs = <<>>
    /\ pe_input = <<>>
    /\ pe_services = <<>>
    /\ pe_order = <<>>
    /\ env_vars = <<>>
    /\ pe_loaded = <<>>
    /\ pe_pc = "idle"
    /\ pe_ret = [tag |-> "Pending"]

DfIdle ==
    /\ df_input = <<>>
    /\ df_lines = <<>>
    /\ df_i = 1
    /\ config = [base_image |-> <<>>, commands |-> <<>>]
    /\ current_command = <<>>
    /\ df_pass = 1
    /\ df_pc = "idle"
    /\ df_ret = [tag |-> "Pending"]
    /\ df_again = [tag |-> "Pending"]
    /\ dispatched = <<>>
    /\ before = [base_image |-> <<>>, commands |-> <<>>]

VolIdle ==
    /\ vol_input = <<>>
    /\ vol_value = [tag |-> "Pending"]
    /\ vol_text = [tag |-> "Pending"]
    /\ vol_again = [tag |-> "Pending"]
    /\ vol_pc = "idle"

CfgIdle ==
    /\ cfg_services = <<>>
    /\ cfg_written = <<>>
    /\ cfg_volumes = <<>>
    /\ cfg_order = <<>>
    /\ cfg_call = [fn |-> "none"]
    /\ cfg_ret = [tag |-> "Pending"]
    /\ cfg_pc = "idle"

MemIdle ==
    /\ mem_input = <<>>
    /\ mem_ret = [tag |-> "Pending"]
    /\ mem_pc = "idle"

ResIdle ==
    /\ res_doc = <<>>
    /\ res_vars = <<>>
    /\ res_envs = <<>>
    /\ res_out = <<>>
    /\ res_pc = "idle"

DeployIdle ==
    /\ dp_volumes = <<>>
    /\ dp_todo = {}
    /\ dp_order = <<>>
    /\ dp_step = "create"
    /\ dp_log = <<>>
    /\ container_ids = <<>>
    /\ dp_ret = [tag |-> "Pending"]
    /\ dp_pc = "idle"

\* Duration::ZERO, which is no power of two
NoDelay == -1

\* the bits of the seconds of a Duration
DurationBits == 64

NetworkIdle ==
    /\ max_retries = 0
    /\ attempts = 0
    /\ delay = NoDelay
    /\ nw_log = <<>>
    /\ nw_ret = [tag |-> "Pending"]
    /\ nw_pc = "idle"

ContainerIdle ==
    /\ ct_id = [some |-> FALSE]
    /\ ct_owned = FALSE
    /\ ct_log = <<>>
    /\ ct_call = [fn |-> "none"]
    /\ ct_ret = [tag |-> "Pending"]
    /\ ct_calls = 0

OrderInit ==
    /\ OrderStart
    /\ SubIdle
    /\ PeIdle
    /\ DfIdle
    /\ VolIdle
    /\ CfgIdle
    /\ MemIdle
    /\ ResIdle
    /\ DeployIdle
    /\ NetworkIdle
    /\ ContainerIdle

OrderNext == RootStep \/ DepStep \/ FinishStep \/ ReturnOk

OrderSpec == OrderInit /\ [][OrderNext]_vars

\* the resolver is one sequential call: a step that can be taken is taken
OrderLive == OrderInit /\ [][OrderNext]_vars /\ WF_vars(OrderNext)

(***************************************************************************)
(* substitute_env_vars (parser/env.rs; ComposeParser::substitute_env_vars  *)
(* in parser/compose.rs is the same three passes)                          *)
(***************************************************************************)
\* [a-zA-Z_] and [a-zA-Z0-9_], as far as the texts of the model use them
IdStartChars == {"A", "B", "d", "u", "v", "w"}
IdChars == IdStartChars \cup {"1"}

RECURSIVE FindStop(_, _, _)
\* the first index at or after i whose character is in stop, Len(t) + 1 if none
FindStop(t, i, stop) ==
    IF i > Len(t) \/ t[i] \in stop THEN i ELSE FindStop(t, i + 1, stop)

RECURSIVE FindNonId(_, _)
\* the first index at or after i whose character is no identifier character
FindNonId(t, i) ==
    IF i > Len(t) \/ t[i] \notin IdChars THEN i ELSE FindNonId(t, i + 1)

NoMatch == [ok |-> FALSE]

\* VAR_DEFAULT_SYNTAX  \$\{([^{}:]+):-([^{}]*)\}  anchored at index i
DefaultMatch(t, i) ==
    IF ~(i + 1 <= Len(t) /\ t[i] = "$" /\ t[i + 1] = "{") THEN NoMatch
    ELSE LET n == FindStop(t, i + 2, {"{", "}", ":"})
         IN  IF ~(n > i + 2 /\ n + 1 <= Len(t) /\ t[n] = ":" /\ t[n + 1] = "-")
             THEN NoMatch
             ELSE LET e == FindStop(t, n + 2, {"{", "}"})
                  IN  IF ~(e <= Len(t) /\ t[e] = "}") THEN NoMatch
                      ELSE [ok |-> TRUE, name |-> SubSeq(t, i + 2, n - 1),
                            default |-> SubSeq(t, n + 2, e - 1), end |-> e]

\* VAR_CURLY_SYNTAX  \$\{([^{}]+)\}  anchored at index i
CurlyMatch(t, i) ==
    IF ~(i + 1 <= Len(t) /\ t[i] = "$" /\ t[i + 1] = "{") THEN NoMatch
    ELSE LET e == FindStop(t, i + 2, {"{", "}"})
         IN  IF ~(e > i + 2 /\ e <= Len(t) /\ t[e] = "}") THEN NoMatch
             ELSE [ok |-> TRUE, name |-> SubSeq(t, i + 2, e - 1), end |-> e]

\* VAR_SYNTAX  \$([a-zA-Z_][a-zA-Z0-9_]*)  anchored at index i
BareMatch(t, i) ==
    IF ~(i + 1 <= Len(t) /\ t[i] = "$" /\ t[i + 1] \in IdStartChars) THEN NoMatch
    ELSE LET e == FindNonId(t, i + 2)
         IN  [ok |-> TRUE, name |-> SubSeq(t, i + 1, e - 1), end |-> e - 1]

\* env_vars.get(name).map_or("", ..)
GetOrEmpty(env, name) == IF name \in DOMAIN env THEN env[name] ELSE <<>>

\* the closure of the first pass: the value unless it is missing or empty
DefaultRepl(env, m) ==
    IF m.name \in DOMAIN env /\ env[m.name] # <<>> THEN env[m.name]
    ELSE m.default

RECURSIVE ReplaceDefault(_, _, _)
\* replace_all of the first pass, from index i on: leftmost matches, none
\* overlapping, the replacement not scanned again by this pass
ReplaceDefault(t, i, env) ==
    IF i > Len(t) THEN <<>>
    ELSE LET m == DefaultMatch(t, i)
         IN  IF m.ok THEN DefaultRepl(env, m) \o ReplaceDefault(t, m.end + 1, env)
             ELSE <<t[i]>> \o ReplaceDefault(t, i + 1, env)

RECURSIVE ReplaceCurly(_, _, _)
ReplaceCurly(t, i, env) ==
    IF i > Len(t) THEN <<>>
    ELSE LET m == CurlyMatch(t, i)
         IN  IF m.ok THEN GetOrEmpty(env, m.name) \o ReplaceCurly(t, m.end + 1, env)
             ELSE <<t[i]>> \o ReplaceCurly(t, i + 1, env)

RECURSIVE ReplaceBare(_, _, _)
ReplaceBare(t, i, env) ==
    IF i > Len(t) THEN <<>>
    ELSE LET m == BareMatch(t, i)
         IN  IF m.ok THEN GetOrEmpty(env, m.name) \o ReplaceBare(t, m.end + 1, env)
             ELSE <<t[i]>> \o ReplaceBare(t, i + 1, env)

\* substitute_env_vars as one function
substitute_env_vars(content, env) ==
    ReplaceBare(ReplaceCurly(ReplaceDefault(content, 1, env), 1, env), 1, env)

\* ---- the inputs: a text is written from at most MaxSegs pieces
MaxSegs == 2

VarA == <<"A">>
VarB == <<"B">>
VarAB == <<"A", "B">>
VarNames == {VarA, VarB, VarAB}

Lit(c) == [kind |-> "lit", text |-> c]
DefaultRef(n, d) == [kind |-> "default", name |-> n, default |-> d]
CurlyRef(n) == [kind |-> "curly", name |-> n]
BareRef(n) == [kind |-> "bare", name |-> n]

Defaults == {<<>>, <<"d">>, <<"$", "B">>}

Segments ==
    {Lit(<<"/">>), Lit(<<"$">>)}
      \cup {DefaultRef(n, d) : n \in {VarA, VarB}, d \in Defaults}
      \cup {CurlyRef(n) : n \in VarNames}
      \cup {BareRef(n) : n \in {VarA, VarB}}

\* the characters a piece is written with
SegText(g) ==
    CASE g.kind = "lit"     -> g.text
      [] g.kind = "default" -> <<"$", "{">> \o g.name \o <<":", "-">> \o g.default \o <<"}">>
      [] g.kind = "curly"   -> <<"$", "{">> \o g.name \o <<"}">>
      [] g.kind = "bare"    -> <<"$">> \o g.name

RECURSIVE Flatten(_)
Flatten(segs) ==
    IF segs = <<>> THEN <<>> ELSE SegText(Head(segs)) \o Flatten(Tail(segs))

\* the variable maps: A may be missing, empty, plain, or hold a reference
ValuesOf(n) ==
    IF n = VarA THEN {<<>>, <<"v">>, <<"$", "B">>, <<"$", "{", "B", "}">>}
    ELSE IF n = VarB THEN {<<"w">>}
    ELSE {<<"u">>}

VarMaps ==
    UNION {{f \in [D -> UNION {ValuesOf(n) : n \in D}] :
               \A n \in D : f[n] \in ValuesOf(n)} : D \in SUBSET VarNames}

SubStart ==
    /\ sub_segs \in SeqsUpTo(Segments, MaxSegs)
    /\ sub_vars \in VarMaps
    /\ sub_cur = Flatten(sub_segs)
    /\ sub_pc = "default"

SubFrame ==
    UNCHANGED <<order_vars, pe_state, df_state, vol_state,
                cfg_state, mem_state, res_state, dp_state,
                nw_state, ct_state>>

\* Handle ${VAR:-default} syntax
PassDefault ==
    /\ sub_pc = "default"
    /\ sub_cur' = ReplaceDefault(sub_cur, 1, sub_vars)
    /\ sub_pc' = "curly"
    /\ UNCHANGED <<sub_segs, sub_vars>>
    /\ SubFrame

\* Handle ${VAR} syntax
PassCurly ==
    /\ sub_pc = "curly"
    /\ sub_cur' = ReplaceCurly(sub_cur, 1, sub_vars)
    /\ sub_pc' = "bare"
    /\ UNCHANGED <<sub_segs, sub_vars>>
    /\ SubFrame

\* Handle $VAR syntax
PassBare ==
    /\ sub_pc = "bare"
    /\ sub_cur' = ReplaceBare(sub_cur, 1, sub_vars)
    /\ sub_pc' = "done"
    /\ UNCHANGED <<sub_segs, sub_vars>>
    /\ SubFrame

OrderIdle ==
    /\ services = <<>>
    /\ ro_pc = "idle"
    /\ remaining = {}
    /\ stack = <<>>
    /\ visited = {}
    /\ temp_visited = {}
    /\ result = <<>>
    /\ ret = [tag |-> "Pending"]
    /\ expanded = [n \in ServiceNames |-> 0]

SubInit ==
    /\ SubStart
    /\ OrderIdle
    /\ PeIdle
    /\ DfIdle
    /\ VolIdle
    /\ CfgIdle
    /\ MemIdle
    /\ ResIdle
    /\ DeployIdle
    /\ NetworkIdle
    /\ ContainerIdle

SubNext == PassDefault \/ PassCurly \/ PassBare

SubSpec == SubInit /\ [][SubNext]_vars

\* what the reference or literal g stands for, by the rules of the three
\* forms taken one reference at a time
FirstLevel(g, env) ==
    CASE g.kind = "lit"     -> g.text
      [] g.kind = "default" -> IF g.name \in DOMAIN env /\ env[g.name] # <<>>
                               THEN env[g.name] ELSE g.default
      [] g.kind = "curly"   -> IF g.name \in DOMAIN env THEN env[g.name] ELSE <<>>
      [] g.kind = "bare"    -> IF g.name \in DOMAIN env THEN env[g.name] ELSE <<>>

RECURSIVE ResolveEach(_, _)
ResolveEach(segs, env) ==
    IF segs = <<>> THEN <<>>
    ELSE FirstLevel(Head(segs), env) \o ResolveEach(Tail(segs), env)

\* C4: substitute resolves each reference by its own rule: ${NAME:-default}
\* to vars[NAME] when present and non-empty and to default otherwise, ${NAME}
\* and $NAME to vars[NAME] when present and to the empty string otherwise.
C4_EachReferenceResolved ==
    sub_pc = "done" => sub_cur = ResolveEach(sub_segs, sub_vars)

\* C5: a reference that is in the text only as the outcome of resolving
\* another reference is not resolved: it stays in the result as it is.
C5_NoRecursiveExpansion ==
    (/\ sub_pc = "done"
     /\ Len(sub_segs) = 1
     /\ sub_segs[1].kind # "lit"
     /\ "$" \in Range(FirstLevel(sub_segs[1], sub_vars)))
        => sub_cur = FirstLevel(sub_segs[1], sub_vars)

\* the cases of C4 without a "$" in a value, a default or a literal, and
\* without a $NAME directly followed by a reference of the two earlier passes
SubPlainInput ==
    /\ \A n \in DOMAIN sub_vars : "$" \notin Range(sub_vars[n])
    /\ \A i \in 1..Len(sub_segs) :
         /\ sub_segs[i].kind = "lit" => "$" \notin Range(sub_segs[i].text)
         /\ sub_segs[i].kind = "default" => "$" \notin Range(sub_segs[i].default)
         /\ (sub_segs[i].kind = "bare" /\ i < Len(sub_segs)) =>
                sub_segs[i + 1].kind \in {"lit", "bare"}

SubPlainResolved ==
    (sub_pc = "done" /\ SubPlainInput) => sub_cur = ResolveEach(sub_segs, sub_vars)

(***************************************************************************)
(* resolve_env_value and process_environment (config/compose.rs)           *)
(***************************************************************************)
\* str::contains
Contains(t, p) ==
    \E i \in 1..(Len(t) - Len(p) + 1) : SubSeq(t, i, i + Len(p) - 1) = p

\* the index of the first occurrence of p in t at or after i, 0 if none
RECURSIVE FindFrom(_, _, _)
FindFrom(t, p, i) ==
    IF i + Len(p) - 1 > Len(t) THEN 0
    ELSE IF SubSeq(t, i, i + Len(p) - 1) = p THEN i
    ELSE FindFrom(t, p, i + 1)

\* str::replace: every occurrence of p, left to right, none overlapping
RECURSIVE StrReplace(_, _, _)
StrReplace(t, p, r) ==
    LET i == FindFrom(t, p, 1)
    IN  IF i = 0 THEN t
        ELSE SubSeq(t, 1, i - 1) \o r
               \o StrReplace(SubSeq(t, i + Len(p), Len(t)), p, r)

\* \$\{([^}]+)}|\$([a-zA-Z_][a-zA-Z0-9_]*)  anchored at index i
ValueMatch(t, i) ==
    IF ~(i + 1 <= Len(t) /\ t[i] = "$") THEN NoMatch
    ELSE IF t[i + 1] = "{"
    THEN LET e == FindStop(t, i + 2, {"}"})
         IN  IF ~(e > i + 2 /\ e <= Len(t)) THEN NoMatch
             ELSE [ok |-> TRUE, full |-> SubSeq(t, i, e),
                   var_name |-> SubSeq(t, i + 2, e - 1), end |-> e]
    ELSE IF t[i + 1] \in IdStartChars
    THEN LET e == FindNonId(t, i + 2)
         IN  [ok |-> TRUE, full |-> SubSeq(t, i, e - 1),
              var_name |-> SubSeq(t, i + 1, e - 1), end |-> e - 1]
    ELSE NoMatch

\* re.captures_iter(value): the matches, leftmost first, none overlapping
RECURSIVE Captures(_, _)
Captures(t, i) ==
    IF i > Len(t) THEN <<>>
    ELSE LET m == ValueMatch(t, i)
         IN  IF m.ok THEN <<m>> \o Captures(t, m.end + 1)
             ELSE Captures(t, i + 1)

\* var_name.split_once(":-")
SplitDefault(var_name) ==
    LET i == FindFrom(var_name, <<":", "-">>, 1)
    IN  IF i = 0 THEN [name |-> var_name, has_default |-> FALSE, default |-> <<>>]
        ELSE [name |-> SubSeq(var_name, 1, i - 1), has_default |-> TRUE,
              default |-> SubSeq(var_name, i + 2, Len(var_name))]

\* env_vars.get(name), else std::env::var(name), else the default, else ""
Replacement(var_name, env, penv) ==
    LET nd == SplitDefault(var_name)
    IN  IF nd.name \in DOMAIN env THEN env[nd.name]
        ELSE IF nd.name \in DOMAIN penv THEN penv[nd.name]
        ELSE IF nd.has_default THEN nd.default
        ELSE <<>>

RECURSIVE ApplyCaptures(_, _, _, _)
\* for cap in captures: result = result.replace(full_match, replacement)
ApplyCaptures(res, caps, env, penv) ==
    IF caps = <<>> THEN res
    ELSE ApplyCaptures(
             StrReplace(res, Head(caps).full,
                        Replacement(Head(caps).var_name, env, penv)),
             Tail(caps), env, penv)

resolve_env_value(value, env, penv) ==
    ApplyCaptures(value, Captures(value, 1), env, penv)

\* HashMap::extend: the new entries replace the old ones
Extend(env, m) ==
    [k \in DOMAIN env \cup DOMAIN m |-> IF k \in DOMAIN m THEN m[k] ELSE env[k]]

\* env_vars.entry(key).or_insert(value) for every entry of m
OrInsertAll(env, m) ==
    [k \in DOMAIN env \cup DOMAIN m |-> IF k \in DOMAIN env THEN env[k] ELSE m[k]]

\* OrInsertAll done as an overriding insert
OrInsertAllOverride(env, m) == Extend(env, m)

NoneEnv == [some |-> FALSE]
SomeEnv(m) == [some |-> TRUE, map |-> m]
EmptyMap == [k \in {} |-> <<>>]

\* ---- the inputs
\* the number of *.env files in envs/common
MaxCommon == 1

PeNames == {"a", "b"}
PathPlain == <<"f">>
PathVar == <<"$", "{", "B", "}">>
PathVarPlain == <<"$", "{", "B", "}", "f">>

SysEnvs ==
    {Extend(a, b) : a \in {EmptyMap, VarA :> <<"s">>},
                    b \in {EmptyMap, VarB :> <<"f">>}}
CommonFiles == {VarA :> <<"c">>, VarA :> <<"e">>}
FileSystems == {EmptyMap, PathPlain :> (VarA :> <<"x">>)}
InlineEnvs ==
    {NoneEnv, SomeEnv(EmptyMap), SomeEnv(VarA :> <<"i">>),
     SomeEnv(VarA :> <<"$", "{", "B", "}">>)}
PeServiceSet ==
    [env_file : {<<>>, <<PathPlain>>, <<PathVar>>, <<PathVarPlain>>},
     environment : InlineEnvs]
PeServiceMaps == UNION {[D -> PeServiceSet] : D \in SUBSET PeNames}

\* the orders in which a HashMap with the keys D can be iterated
Orders(D) ==
    {o \in [1..Cardinality(D) -> D] : \A i, j \in 1..Cardinality(D) :
                                         o[i] = o[j] => i = j}

PeStart ==
    /\ pe_sys \in SysEnvs
    /\ pe_common \in SeqsUpTo(CommonFiles, MaxCommon)
    /\ pe_fs \in FileSystems
    /\ pe_input \in PeServiceMaps
    /\ pe_services = pe_input
    /\ pe_order \in Orders(DOMAIN pe_services)
    /\ env_vars = pe_sys
    /\ pe_loaded = <<>>
    /\ pe_pc = "common"
    /\ pe_ret = [tag |-> "Pending"]

PeFrame ==
    UNCHANGED <<order_vars, sub_state, df_state, vol_state,
                cfg_state, mem_state, res_state, dp_state,
                nw_state, ct_state>>

RECURSIVE FoldOrInsert(_, _)
FoldOrInsert(env, files) ==
    IF files = <<>> THEN env
    ELSE FoldOrInsert(OrInsertAll(env, Head(files)), Tail(files))

\* First pass: load common env files
LoadCommon ==
    /\ pe_pc = "common"
    /\ env_vars' = FoldOrInsert(env_vars, pe_common)
    /\ pe_pc' = "envfiles"
    /\ UNCHANGED <<pe_sys, pe_common, pe_fs, pe_input, pe_services, pe_order, pe_loaded,
                   pe_ret>>
    /\ PeFrame

\* the env_file entries of all services, in the order the loops reach them
RECURSIVE EnvFileList(_)
EnvFileList(order) ==
    IF order = <<>> THEN <<>>
    ELSE pe_services[Head(order)].env_file \o EnvFileList(Tail(order))

\* "Only fail if the file is required (no default value in the path)"
PathRequired(env_file) ==
    Contains(env_file, <<"$", "{">>) /\ ~Contains(env_file, <<":", "-">>)

RECURSIVE ReadEnvFiles(_, _)
\* the second pass from the state st = [env, loaded, err] over the paths
ReadEnvFiles(st, paths) ==
    IF paths = <<>> THEN st
    ELSE LET env_file == Head(paths)
             resolved_path == resolve_env_value(env_file, st.env, pe_sys)
         IN  IF resolved_path \in DOMAIN pe_fs
             THEN ReadEnvFiles([st EXCEPT
                                   !.env = Extend(st.env, pe_fs[resolved_path]),
                                   !.loaded = Append(st.loaded, pe_fs[resolved_path])],
                               Tail(paths))
             ELSE IF PathRequired(env_file)
             THEN [st EXCEPT !.err = [kind |-> "RequiredEnvFileNotFound",
                                      path |-> resolved_path]]
             ELSE ReadEnvFiles(st, Tail(paths))

NoErr == [kind |-> "none"]

\* Second pass: resolve and load service env_files
LoadEnvFiles ==
    /\ pe_pc = "envfiles"
    /\ LET st == ReadEnvFiles([env |-> env_vars, loaded |-> <<>>, err |-> NoErr],
                              EnvFileList(pe_order))
       IN  /\ env_vars' = st.env
           /\ pe_loaded' = st.loaded
           /\ IF st.err = NoErr
              THEN pe_pc' = "inline" /\ UNCHANGED pe_ret
              ELSE pe_pc' = "done" /\ pe_ret' = [tag |-> "Err", err |-> st.err]
    /\ UNCHANGED <<pe_sys, pe_common, pe_fs, pe_input, pe_services, pe_order>>
    /\ PeFrame

RECURSIVE FoldInline(_, _)
FoldInline(env, order) ==
    IF order = <<>> THEN env
    ELSE LET e == pe_services[Head(order)].environment
         IN  FoldInline(IF e.some THEN Extend(env, e.map) ELSE env, Tail(order))

\* Final pass: add service-specific environment variables
AddInline ==
    /\ pe_pc = "inline"
    /\ env_vars' = FoldInline(env_vars, pe_order)
    /\ pe_pc' = "validate"
    /\ UNCHANGED <<pe_sys, pe_common, pe_fs, pe_input, pe_services, pe_order, pe_loaded,
                   pe_ret>>
    /\ PeFrame

\* env_file.split("${").nth(1).and_then(|s| s.split("}").next())
PathVarName(env_file) ==
    LET i     == FindFrom(env_file, <<"$", "{">>, 1)
        after == SubSeq(env_file, i + 2, Len(env_file))
        j     == FindFrom(after, <<"$", "{">>, 1)
        piece == IF j = 0 THEN after ELSE SubSeq(after, 1, j - 1)
        k     == FindFrom(piece, <<"}">>, 1)
    IN  IF k = 0 THEN piece ELSE SubSeq(piece, 1, k - 1)

\* the first env_file of the list that validate_environment rejects, as a
\* set with at most one error
RECURSIVE EnvFileErrors(_, _, _)
EnvFileErrors(name, files, env) ==
    IF files = <<>> THEN {}
    ELSE IF PathRequired(Head(files)) /\ PathVarName(Head(files)) \notin DOMAIN env
    THEN {[kind |-> "MissingEnvFileVar", service |-> name,
           var |-> PathVarName(Head(files))]}
    ELSE EnvFileErrors(name, Tail(files), env)

\* the errors the loop over the environment of a service can stop with
\* (the entries of the HashMap come in any order)
InlineErrors(name, e, env) ==
    IF ~e.some THEN {}
    ELSE {[kind |-> "MissingEnvVar", service |-> name, var |-> k] :
            k \in {k \in DOMAIN e.map :
                     /\ Contains(e.map[k], <<"$", "{">>)
                     /\ ~Contains(e.map[k], <<":", "-">>)
                     /\ k \notin DOMAIN env}}

RECURSIVE validate_environment(_, _)
\* the errors validate_environment can return; none: it returns Ok
validate_environment(order, env) ==
    IF order = <<>> THEN {}
    ELSE LET name == Head(order)
             fe   == EnvFileErrors(name, pe_services[name].env_file, env)
             ie   == InlineErrors(name, pe_services[name].environment, env)
         IN  IF fe # {} THEN fe
             ELSE IF ie # {} THEN ie
             ELSE validate_environment(Tail(order), env)

\* resolve_env on the services (the services of this part have no volumes)
resolve_env(svcs, env, penv) ==
    [n \in DOMAIN svcs |->
        IF svcs[n].environment.some
        THEN [svcs[n] EXCEPT !.environment.map =
                 [k \in DOMAIN @ |-> resolve_env_value(@[k], env, penv)]]
        ELSE svcs[n]]

\* validate_environment, resolve_env and the return of env_vars
ValidateAndResolve ==
    /\ pe_pc = "validate"
    /\ LET errs == validate_environment(pe_order, env_vars)
       IN  IF errs = {}
           THEN /\ pe_services' = resolve_env(pe_services, env_vars, pe_sys)
                /\ pe_ret' = [tag |-> "Ok", env_vars |-> env_vars]
           ELSE /\ \E e \in errs : pe_ret' = [tag |-> "Err", err |-> e]
                /\ UNCHANGED pe_services
    /\ pe_pc' = "done"
    /\ UNCHANGED <<pe_sys, pe_common, pe_fs, pe_input, pe_order, env_vars,
                   pe_loaded>>
    /\ PeFrame

PeInit ==
    /\ PeStart
    /\ OrderIdle
    /\ SubIdle
    /\ DfIdle
    /\ VolIdle
    /\ CfgIdle
    /\ MemIdle
    /\ ResIdle
    /\ DeployIdle
    /\ NetworkIdle
    /\ ContainerIdle

PeNext == LoadCommon \/ LoadEnvFiles \/ AddInline \/ ValidateAndResolve

PeSpec == PeInit /\ [][PeNext]_vars

\* ---- the layers of a finished run, as the inputs give them
InlineValues(k) ==
    {pe_input[n].environment.map[k] :
        n \in {n \in DOMAIN pe_input : /\ pe_input[n].environment.some
                                       /\ k \in DOMAIN pe_input[n].environment.map}}
EnvFileValues(k) ==
    {pe_loaded[i][k] : i \in {i \in 1..Len(pe_loaded) : k \in DOMAIN pe_loaded[i]}}
CommonValues(k) ==
    {pe_common[i][k] : i \in {i \in 1..Len(pe_common) : k \in DOMAIN pe_common[i]}}

\* the value of the highest layer that defines k decides
LayeredValueOk(k, v) ==
    IF InlineValues(k) # {} THEN v \in InlineValues(k)
    ELSE IF EnvFileValues(k) # {} THEN v \in EnvFileValues(k)
    ELSE IF CommonValues(k) # {} THEN v \in CommonValues(k)
    ELSE k \in DOMAIN pe_sys /\ v = pe_sys[k]

\* C6: a variable defined in several layers gets the value of the latest one,
\* in the order process environment, shared env files, env_file, inline
\* environment.
C6_LaterLayerWins ==
    (pe_pc = "done" /\ pe_ret.tag = "Ok") =>
        \A k \in DOMAIN pe_ret.env_vars : LayeredValueOk(k, pe_ret.env_vars[k])

\* the layering the code has: the process environment above the shared files
CodeLayeredValueOk(k, v) ==
    IF InlineValues(k) # {} THEN v \in InlineValues(k)
    ELSE IF EnvFileValues(k) # {} THEN v \in EnvFileValues(k)
    ELSE IF k \in DOMAIN pe_sys THEN v = pe_sys[k]
    ELSE v \in CommonValues(k)

PeCodeLayering ==
    (pe_pc = "done" /\ pe_ret.tag = "Ok") =>
        \A k \in DOMAIN pe_ret.env_vars : CodeLayeredValueOk(k, pe_ret.env_vars[k])

(***************************************************************************)
(* The Dockerfile parser (parser/docker_file.rs) and renderer              *)
(* (config/docker_file.rs).  A line is a sequence of characters; a word    *)
(* made only of characters the parser never looks at is one element.       *)
(***************************************************************************)
SP == " "
BS == "\\"
DQ == "\""
SQ == "'"

\* ---- str helpers
RECURSIVE TrimStart(_)
TrimStart(t) == IF t # <<>> /\ Head(t) = SP THEN TrimStart(Tail(t)) ELSE t

RECURSIVE TrimEnd(_)
TrimEnd(t) ==
    IF t # <<>> /\ t[Len(t)] = SP THEN TrimEnd(SubSeq(t, 1, Len(t) - 1)) ELSE t

Trim(t) == TrimEnd(TrimStart(t))

StartsWith(t, p) == Len(t) >= Len(p) /\ SubSeq(t, 1, Len(p)) = p

\* str::splitn(2, c): one piece without c, else the pieces around the first c
SplitN2(t, c) ==
    LET i == FindStop(t, 1, {c})
    IN  IF i > Len(t) THEN <<t>>
        ELSE <<SubSeq(t, 1, i - 1), SubSeq(t, i + 1, Len(t))>>

RECURSIVE SplitChar(_, _)
\* str::split(c): the pieces around every c
SplitChar(t, c) ==
    LET i == FindStop(t, 1, {c})
    IN  IF i > Len(t) THEN <<t>>
        ELSE <<SubSeq(t, 1, i - 1)>> \o SplitChar(SubSeq(t, i + 1, Len(t)), c)

RECURSIVE SplitWhitespace(_)
\* str::split_whitespace
SplitWhitespace(t) ==
    LET u == TrimStart(t)
        i == FindStop(u, 1, {SP})
    IN  IF u = <<>> THEN <<>>
        ELSE <<SubSeq(u, 1, i - 1)>> \o SplitWhitespace(SubSeq(u, i, Len(u)))

RECURSIVE JoinWith(_, _)
\* [String]::join(sep)
JoinWith(parts, sep) ==
    IF parts = <<>> THEN <<>>
    ELSE IF Len(parts) = 1 THEN parts[1]
    ELSE parts[1] \o sep \o JoinWith(Tail(parts), sep)

\* str::to_uppercase, on the lower-case words that can stand before the
\* first space of a line of the model
UpperWord(c) ==
    CASE c = "from" -> "FROM"
      [] c = "run" -> "RUN"
      [] c = "bogus" -> "BOGUS"
      [] c = "x" -> "X"
      [] c = "a" -> "A"
      [] OTHER -> c
to_uppercase(t) == [i \in 1..Len(t) |-> UpperWord(t[i])]

\* the decimal numbers the model writes, and their values
NumberWords == {"80", "080", "443", "3", "70000"}
NumberValue(c) ==
    CASE c = "80" -> 80
      [] c = "080" -> 80
      [] c = "443" -> 443
      [] c = "3" -> 3
      [] c = "70000" -> 70000
NumberText(n) ==
    CASE n = 80 -> "80"
      [] n = 443 -> "443"
      [] n = 3 -> "3"
      [] n = 70000 -> "70000"

U16Max == 65535

\* str::parse::<u16>(): None unless t is a number a u16 holds
ParseU16(t) ==
    IF Len(t) = 1 /\ t[1] \in NumberWords /\ NumberValue(t[1]) <= U16Max
    THEN [some |-> TRUE, value |-> NumberValue(t[1])]
    ELSE [some |-> FALSE]

\* str::parse::<u32>(): None unless t is a number; every number of
\* NumberWords is one a u32 holds
ParseU32(t) ==
    IF Len(t) = 1 /\ t[1] \in NumberWords
    THEN [some |-> TRUE, value |-> NumberValue(t[1])]
    ELSE [some |-> FALSE]

\* Option<String>
None == [some |-> FALSE]
Some(v) == [some |-> TRUE, value |-> v]

\* ---- shell_words::split: the state machine of the crate over t from index i
RECURSIVE ShSplit(_, _, _, _, _)
ShSplit(t, i, state, word, words) ==
    LET end == i > Len(t)
        c   == IF end THEN "" ELSE t[i]
        go(s, w, ws) == ShSplit(t, i + 1, s, w, ws)
    IN  CASE state = "Delimiter" ->
               IF end THEN [ok |-> TRUE, words |-> words]
               ELSE IF c = SQ THEN go("SingleQuoted", word, words)
               ELSE IF c = DQ THEN go("DoubleQuoted", word, words)
               ELSE IF c = BS THEN go("Backslash", word, words)
               ELSE IF c = SP THEN go("Delimiter", word, words)
               ELSE IF c = "#" THEN go("Comment", word, words)
               ELSE go("Unquoted", Append(word, c), words)
          [] state \in {"Backslash", "UnquotedBackslash"} ->
               IF end THEN [ok |-> TRUE, words |-> Append(words, Append(word, BS))]
               ELSE go("Unquoted", Append(word, c), words)
          [] state = "Unquoted" ->
               IF end THEN [ok |-> TRUE, words |-> Append(words, word)]
               ELSE IF c = SQ THEN go("SingleQuoted", word, words)
               ELSE IF c = DQ THEN go("DoubleQuoted", word, words)
               ELSE IF c = BS THEN go("UnquotedBackslash", word, words)
               ELSE IF c = SP THEN go("Delimiter", <<>>, Append(words, word))
               ELSE go("Unquoted", Append(word, c), words)
          [] state = "SingleQuoted" ->
               IF end THEN [ok |-> FALSE]
               ELSE IF c = SQ THEN go("Unquoted", word, words)
               ELSE go("SingleQuoted", Append(word, c), words)
          [] state = "DoubleQuoted" ->
               IF end THEN [ok |-> FALSE]
               ELSE IF c = DQ THEN go("Unquoted", word, words)
               ELSE IF c = BS THEN go("DoubleQuotedBackslash", word, words)
               ELSE go("DoubleQuoted", Append(word, c), words)
          [] state = "DoubleQuotedBackslash" ->
               IF end THEN [ok |-> FALSE]
               ELSE IF c \in {DQ, BS} THEN go("DoubleQuoted", Append(word, c), words)
               ELSE go("DoubleQuoted", Append(Append(word, BS), c), words)
          [] state = "Comment" ->
               IF end THEN [ok |-> TRUE, words |-> words]
               ELSE go("Comment", word, words)

shell_split(t) == ShSplit(t, 1, "Delimiter", <<>>, <<>>)

\* the characters shell_words::quote leaves unquoted: letters, digits and _-=/,.+
ShSpecial == {SP, BS, DQ, SQ, "#", ":", "[", "]"}

\* shell_words::quote: '' for the empty word, the word itself when it has no
\* special character, else the word in single quotes with ' written '\''
shell_quote(w) ==
    IF w = <<>> THEN <<SQ, SQ>>
    ELSE IF Range(w) \cap ShSpecial = {} THEN w
    ELSE <<SQ>> \o JoinWith(SplitChar(w, SQ), <<SQ, BS, SQ, SQ>>) \o <<SQ>>

\* shell_words::join
shell_join(ws) == JoinWith([i \in 1..Len(ws) |-> shell_quote(ws[i])], <<SP>>)

\* ---- serde_json::from_str::<Vec<String>>: an array of strings
RECURSIVE JsonScan(_, _, _, _, _)
JsonScan(t, i, state, cur, items) ==
    LET end == i > Len(t)
        c   == IF end THEN "" ELSE t[i]
        go(s, w, ws) == JsonScan(t, i + 1, s, w, ws)
        bad == [ok |-> FALSE]
    IN  IF ~end /\ c = SP /\ state \notin {"String", "Escape"}
        THEN go(state, cur, items)
        ELSE CASE state = "Start" ->
                    IF ~end /\ c = "[" THEN go("First", cur, items) ELSE bad
               [] state = "First" ->
                    IF end THEN bad
                    ELSE IF c = "]" THEN go("End", cur, items)
                    ELSE IF c = DQ THEN go("String", <<>>, items)
                    ELSE bad
               [] state = "Item" ->
                    IF ~end /\ c = DQ THEN go("String", <<>>, items) ELSE bad
               [] state = "String" ->
                    IF end THEN bad
                    ELSE IF c = DQ THEN go("After", <<>>, Append(items, cur))
                    ELSE IF c = BS THEN go("Escape", cur, items)
                    ELSE go("String", Append(cur, c), items)
               [] state = "Escape" ->
                    IF ~end /\ c \in {DQ, BS, "/"}
                    THEN go("String", Append(cur, c), items) ELSE bad
               [] state = "After" ->
                    IF end THEN bad
                    ELSE IF c = "," THEN go("Item", cur, items)
                    ELSE IF c = "]" THEN go("End", cur, items)
                    ELSE bad
               [] state = "End" ->
                    IF end THEN [ok |-> TRUE, words |-> items] ELSE bad

json_string_array(t) == JsonScan(t, 1, "Start", <<>>, <<>>)

\* ---- results of parse_command
CmdOk(cfg) == [tag |-> "Ok", config |-> cfg]
CmdErr(kind, token) == [tag |-> "Err", err |-> [kind |-> kind, token |-> token]]
\* an index out of bounds: the thread panics, nothing is returned
CmdPanic == [tag |-> "Panic"]

\* config.commands.push(cmd)
Push(cfg, cmd) == [cfg EXCEPT !.commands = Append(@, cmd)]

EmptyConfig == [base_image |-> <<>>, commands |-> <<>>]

RECURSIVE TrimStartMatches(_, _)
TrimStartMatches(t, p) ==
    IF StartsWith(t, p) THEN TrimStartMatches(SubSeq(t, Len(p) + 1, Len(t)), p)
    ELSE t

ChownFlag == <<"--chown", "=">>

parse_chown_option(args) ==
    IF StartsWith(args, ChownFlag)
    THEN LET parts == SplitN2(args, SP)
         IN  [chown |-> Some(TrimStartMatches(parts[1], ChownFlag)),
              rest |-> IF Len(parts) = 2 THEN parts[2] ELSE <<>>]
    ELSE [chown |-> None, rest |-> args]

\* the JSON array form when args starts with '[', else shell words of words_in
ParseArgv(args, words_in) ==
    IF StartsWith(Trim(args), <<"[">>)
    THEN LET j == json_string_array(args)
         IN  IF j.ok THEN j ELSE [ok |-> FALSE, kind |-> "InvalidJsonArray"]
    ELSE LET w == shell_split(words_in)
         IN  IF w.ok THEN w ELSE [ok |-> FALSE, kind |-> "ShellWords"]

RECURSIVE ExposeEachSkip(_, _)
\* a best-effort loop: a bad token is passed over, the good ones are kept
ExposeEachSkip(cfg, ports) ==
    IF ports = <<>> THEN CmdOk(cfg)
    ELSE LET parts == SplitChar(Head(ports), "/")
             port  == ParseU16(Trim(parts[1]))
         IN  IF ~port.some THEN ExposeEachSkip(cfg, Tail(ports))
             ELSE ExposeEachSkip(
                      Push(cfg, [type |-> "Expose", port |-> port.value,
                                 protocol |-> IF Len(parts) >= 2
                                              THEN Some(Trim(parts[2])) ELSE None]),
                      Tail(ports))

RECURSIVE ExposeEach(_, _)
\* for port_spec in ports: one Expose per token, an error at the first bad one
ExposeEach(cfg, ports) ==
    IF ports = <<>> THEN CmdOk(cfg)
    ELSE LET parts == SplitChar(Head(ports), "/")
             port  == ParseU16(Trim(parts[1]))
         IN  IF ~port.some THEN CmdErr("InvalidPortNumber", parts[1])
             ELSE ExposeEach(
                      Push(cfg, [type |-> "Expose", port |-> port.value,
                                 protocol |-> IF Len(parts) >= 2
                                              THEN Some(Trim(parts[2])) ELSE None]),
                      Tail(ports))

\* the words that start with "--"
DashWords == {"--interval", "--timeout", "--start-period", "--retries",
              "--chown", "--bogus"}

NoFlags == [interval |-> None, timeout |-> None, start_period |-> None,
            retries |-> None]

FlagField(flag) ==
    CASE flag = <<"--interval">> -> "interval"
      [] flag = <<"--timeout">> -> "timeout"
      [] flag = <<"--start-period">> -> "start_period"

RECURSIVE HealthScan(_, _, _)
\* while let Some(part) = parts.next(): the flags up to the CMD keyword
HealthScan(parts, i, st) ==
    IF i > Len(parts) THEN [tag |-> "NoCmd"]
    ELSE LET part == parts[i]
         IN  IF part = <<"CMD">>
             THEN [tag |-> "Cmd", cmd_parts |-> SubSeq(parts, i + 1, Len(parts)),
                   flags |-> st]
             ELSE IF ~(part[1] \in DashWords) THEN HealthScan(parts, i + 1, st)
             ELSE LET flag_part == SplitN2(part, "=")
                      flag      == flag_part[1]
                      inline    == Len(flag_part) = 2
                      has_next  == i + 1 <= Len(parts)
                      next_i    == IF inline THEN i + 1 ELSE i + 2
                  IN  IF flag \in {<<"--interval">>, <<"--timeout">>,
                                   <<"--start-period">>}
                      THEN IF ~inline /\ ~has_next
                           THEN [tag |-> "Err", kind |-> "MissingFlagValue",
                                 token |-> flag]
                           ELSE HealthScan(parts, next_i,
                                    [st EXCEPT ![FlagField(flag)] =
                                        Some(IF inline THEN flag_part[2]
                                             ELSE parts[i + 1])])
                      ELSE IF flag = <<"--retries">>
                      THEN LET v == IF inline
                                    THEN ParseU32(flag_part[2])
                                    ELSE IF has_next
                                    THEN ParseU32(parts[i + 1])
                                    ELSE None
                           IN  IF ~v.some
                               THEN [tag |-> "Err", kind |-> "InvalidRetries",
                                     token |-> <<>>]
                               ELSE HealthScan(parts, next_i,
                                        [st EXCEPT !.retries = Some(v.value)])
                      ELSE [tag |-> "Err", kind |-> "InvalidHealthcheckFlag",
                            token |-> flag]

\* labels.insert(key, value)
MapInsert(m, k, v) == [x \in DOMAIN m \cup {k} |-> IF x = k THEN v ELSE m[x]]

RECURSIVE LabelScan(_, _, _, _, _, _)
\* for c in args.chars(): the scanner of LABEL, then the last pair
LabelScan(t, i, labels, key, value, in_quotes) ==
    IF i > Len(t)
    THEN IF key # <<>> /\ value # <<>> THEN MapInsert(labels, key, value)
         ELSE labels
    ELSE LET c == t[i]
         IN  IF c = DQ THEN LabelScan(t, i + 1, labels, key, value, ~in_quotes)
             ELSE IF c = "=" /\ ~in_quotes /\ key = <<>>
             THEN LabelScan(t, i + 1, labels, Trim(value), <<>>, in_quotes)
             ELSE IF c = SP /\ ~in_quotes /\ key # <<>>
             THEN IF value # <<>>
                  THEN LabelScan(t, i + 1, MapInsert(labels, key, value),
                                 <<>>, <<>>, in_quotes)
                  ELSE LabelScan(t, i + 1, labels, key, value, in_quotes)
             ELSE LabelScan(t, i + 1, labels, key, Append(value, c), in_quotes)

KnownCommands ==
    {"FROM", "COPY", "EXPOSE", "ONBUILD", "ADD", "ARG", "CMD", "ENTRYPOINT",
     "ENV", "HEALTHCHECK", "LABEL", "MAINTAINER", "RUN", "SHELL", "STOPSIGNAL",
     "USER", "VOLUME", "WORKDIR"}

\* the match arms of parse_command that need no recursion
DispatchSimple(cfg, command, args) ==
    CASE command = <<"FROM">> -> CmdOk([cfg EXCEPT !.base_image = args])
      [] command = <<"COPY">> ->
            IF Len(SplitWhitespace(args)) < 2
            THEN CmdErr("CopyRequiresSourceAndDestination", <<>>)
            ELSE LET co    == parse_chown_option(args)
                     parts == SplitWhitespace(co.rest)
                 IN  IF Len(parts) < 2 THEN CmdPanic
                     ELSE CmdOk(Push(cfg, [type |-> "Copy", source |-> parts[1],
                                           dest |-> parts[2], chown |-> co.chown]))
      [] command = <<"EXPOSE">> -> ExposeEach(cfg, SplitWhitespace(args))
      [] command = <<"ADD">> ->
            LET co == parse_chown_option(args)
                sd == ParseArgv(args, co.rest)
            IN  IF ~sd.ok THEN CmdErr(sd.kind, <<>>)
                ELSE IF Len(sd.words) >= 2
                THEN CmdOk(Push(cfg, [type |-> "Add",
                                      sources |-> SubSeq(sd.words, 1, Len(sd.words) - 1),
                                      dest |-> sd.words[Len(sd.words)],
                                      chown |-> co.chown]))
                ELSE CmdErr("AddRequiresSourceAndDestination", <<>>)
      [] command = <<"ARG">> ->
            LET parts == SplitChar(args, "=")
            IN  CmdOk(Push(cfg, [type |-> "Arg", name |-> Trim(parts[1]),
                                 default_value |-> IF Len(parts) >= 2
                                                   THEN Some(Trim(parts[2]))
                                                   ELSE None]))
      [] command \in {<<"CMD">>, <<"ENTRYPOINT">>, <<"SHELL">>, <<"VOLUME">>} ->
            LET w == ParseArgv(args, args)
            IN  IF ~w.ok THEN CmdErr(w.kind, <<>>)
                ELSE CmdOk(Push(cfg,
                       CASE command = <<"CMD">> ->
                              [type |-> "Cmd", command |-> w.words]
                         [] command = <<"ENTRYPOINT">> ->
                              [type |-> "Entrypoint", command |-> w.words]
                         [] command = <<"SHELL">> ->
                              [type |-> "Shell", shell |-> w.words]
                         [] command = <<"VOLUME">> ->
                              [type |-> "Volume", paths |-> w.words]))
      [] command = <<"ENV">> ->
            LET parts == SplitN2(args, "=")
            IN  IF Len(parts) = 2
                THEN CmdOk(Push(cfg, [type |-> "Env", key |-> Trim(parts[1]),
                                      value |-> Trim(parts[2])]))
                ELSE CmdOk(cfg)
      [] command = <<"HEALTHCHECK">> ->
            IF Trim(args) = <<"NONE">> THEN CmdOk(cfg)
            ELSE LET h == HealthScan(SplitWhitespace(args), 1, NoFlags)
                 IN  IF h.tag = "Err" THEN CmdErr(h.kind, h.token)
                     ELSE IF h.tag = "NoCmd"
                     THEN CmdErr("HealthcheckMustIncludeCmd", <<>>)
                     ELSE LET w == shell_split(JoinWith(h.cmd_parts, <<SP>>))
                              command_words == IF w.ok THEN w.words ELSE <<>>
                          IN  IF command_words # <<>>
                              THEN CmdOk(Push(cfg,
                                     [type |-> "Healthcheck",
                                      command |-> command_words,
                                      interval |-> h.flags.interval,
                                      timeout |-> h.flags.timeout,
                                      start_period |-> h.flags.start_period,
                                      retries |-> h.flags.retries]))
                              ELSE CmdOk(cfg)
      [] command = <<"LABEL">> ->
            CmdOk(Push(cfg, [type |-> "Label",
                             labels |-> LabelScan(args, 1, EmptyMap, <<>>, <<>>,
                                                  FALSE)]))
      [] command = <<"MAINTAINER">> ->
            CmdOk(Push(cfg, [type |-> "Maintainer", name |-> args]))
      [] command = <<"RUN">> -> CmdOk(Push(cfg, [type |-> "Run", command |-> args]))
      [] command = <<"STOPSIGNAL">> ->
            CmdOk(Push(cfg, [type |-> "StopSignal", signal |-> args]))
      [] command = <<"USER">> ->
            LET parts == SplitChar(args, ":")
            IN  CmdOk(Push(cfg, [type |-> "User", user |-> parts[1],
                                 group |-> IF Len(parts) >= 2 THEN Some(parts[2])
                                           ELSE None]))
      [] command = <<"WORKDIR">> ->
            CmdOk(Push(cfg, [type |-> "Workdir", path |-> args]))
      [] OTHER -> CmdErr("UnknownCommand", command)

RECURSIVE parse_command(_, _)
parse_command(cfg, line) ==
    LET parts == SplitN2(line, SP)
    IN  IF Len(parts) # 2 THEN CmdErr("InvalidCommandSyntax", <<>>)
        ELSE LET command == to_uppercase(parts[1])
                 args    == Trim(parts[2])
             IN  IF command = <<"ONBUILD">>
                 THEN IF args = <<>> THEN CmdErr("OnbuildRequiresOneArgument", <<>>)
                      ELSE LET inner == parse_command(EmptyConfig, args)
                           IN  IF inner.tag # "Ok" THEN inner
                               ELSE IF inner.config.commands # <<>>
                               THEN CmdOk(Push(cfg,
                                      [type |-> "Onbuild",
                                       command |-> inner.config.commands[
                                                      Len(inner.config.commands)]]))
                               ELSE CmdErr("InvalidOnbuildCommand", <<>>)
                 ELSE DispatchSimple(cfg, command, args)

\* ---- impl Display for DockerCommand
OptionText(flag, opt) == IF opt.some THEN <<<<flag, "=">> \o opt.value>> ELSE <<>>

\* the pairs of a labels map, in the iteration order ord of the HashMap
LabelPairs(labels, ord) ==
    LET keys == SelectSeq(ord, LAMBDA k : k \in DOMAIN labels)
    IN  [i \in 1..Len(keys) |-> keys[i] \o <<"=", DQ>> \o labels[keys[i]] \o <<DQ>>]

ChownText(chown) ==
    IF chown.some THEN ChownFlag \o chown.value \o <<SP>> ELSE <<>>

RECURSIVE render_command(_, _)
render_command(cmd, ord) ==
    CASE cmd.type = "Add" ->
           <<"ADD", SP>> \o ChownText(cmd.chown) \o JoinWith(cmd.sources, <<SP>>)
               \o <<SP>> \o cmd.dest
      [] cmd.type = "Arg" ->
           <<"ARG", SP>> \o cmd.name \o
               (IF cmd.default_value.some THEN <<"=">> \o cmd.default_value.value
                ELSE <<>>)
      [] cmd.type = "Cmd" -> <<"CMD", SP>> \o shell_join(cmd.command)
      [] cmd.type = "Copy" ->
           <<"COPY", SP>> \o ChownText(cmd.chown) \o cmd.source \o <<SP>> \o cmd.dest
      [] cmd.type = "Entrypoint" -> <<"ENTRYPOINT", SP>> \o shell_join(cmd.command)
      [] cmd.type = "Env" -> <<"ENV", SP>> \o cmd.key \o <<"=">> \o cmd.value
      [] cmd.type = "Expose" ->
           <<"EXPOSE", SP, NumberText(cmd.port)>> \o
               (IF cmd.protocol.some THEN <<"/">> \o cmd.protocol.value ELSE <<>>)
      [] cmd.type = "Healthcheck" ->
           LET options == OptionText("--interval", cmd.interval)
                          \o OptionText("--timeout", cmd.timeout)
                          \o OptionText("--start-period", cmd.start_period)
                          \o OptionText("--retries",
                                 IF cmd.retries.some
                                 THEN Some(<<NumberText(cmd.retries.value)>>)
                                 ELSE None)
               options_str == IF options = <<>> THEN <<>>
                              ELSE <<SP>> \o JoinWith(options, <<SP>>)
           IN  <<"HEALTHCHECK">> \o options_str \o <<SP, SP, "CMD", SP>>
                   \o shell_join(cmd.command)
      [] cmd.type = "Label" ->
           <<"LABEL", SP>> \o JoinWith(LabelPairs(cmd.labels, ord), <<SP>>)
      [] cmd.type = "Maintainer" -> <<"MAINTAINER", SP>> \o cmd.name
      [] cmd.type = "Onbuild" -> <<"ONBUILD", SP>> \o render_command(cmd.command, ord)
      [] cmd.type = "Run" -> <<"RUN", SP>> \o cmd.command
      [] cmd.type = "Shell" -> <<"SHELL", SP>> \o shell_join(cmd.shell)
      [] cmd.type = "StopSignal" -> <<"STOPSIGNAL", SP>> \o cmd.signal
      [] cmd.type = "User" ->
           <<"USER", SP>> \o cmd.user \o
               (IF cmd.group.some THEN <<":">> \o cmd.group.value ELSE <<>>)
      [] cmd.type = "Volume" -> <<"VOLUME", SP>> \o shell_join(cmd.paths)
      [] cmd.type = "Workdir" -> <<"WORKDIR", SP>> \o cmd.path

\* impl Display for DockerfileConfig: the lines written, one per writeln!
render(cfg, ord) ==
    <<<<"FROM", SP>> \o cfg.base_image>>
        \o [i \in 1..Len(cfg.commands) |-> render_command(cfg.commands[i], ord)]

\* ---- the inputs: at most MaxLines physical lines
MaxLines == 2

DfLines ==
    { <<"FROM", SP, "a">>,
      <<"from", SP, "a">>,
      <<>>,
      <<SP>>,
      <<"#", "c">>,
      <<"x">>,
      <<"RUN", SP, "x">>,
      <<"RUN", SP, "x", SP, BS>>,
      <<BS>>,
      <<"#", "c", SP, BS>>,
      <<"EXPOSE", SP, "080">>,
      <<"EXPOSE", SP, "80", "/", "tcp", SP, "443">>,
      <<"EXPOSE", SP, "80", SP, "bad">>,
      <<"EXPOSE", SP, "70000">>,
      <<"bogus", SP, "x">>,
      <<"ONBUILD">>,
      <<"ONBUILD", SP, "RUN", SP, "x">>,
      <<"ONBUILD", SP, "bogus", SP, "x">>,
      <<"ONBUILD", SP, "FROM", SP, "a">>,
      <<"ONBUILD", SP, "EXPOSE", SP, "80", SP, "443">>,
      <<"ONBUILD", SP, "ONBUILD", SP, "RUN", SP, "x">>,
      <<"LABEL", SP, "x">>,
      <<"LABEL", SP, "k", "=", DQ, "v", SP, "w", DQ, SP, "j", "=", "v">>,
      <<"CMD", SP, "[", DQ, "a", SP, "b", DQ, ",", DQ, "c", DQ, "]">>,
      <<"CMD", SP, "[", "a", "]">>,
      <<"ENTRYPOINT", SP, DQ, "a">>,
      <<"SHELL", SP, "a", SP, SQ, "b", SP, "c", SQ>>,
      <<"VOLUME", SP, "/", "d">>,
      <<"ADD", SP, "[", DQ, "a", SP, "b", DQ, ",", DQ, "c", DQ, "]">>,
      <<"ADD", SP, "--chown", "=", "u", SP, "a", SP, "b">>,
      <<"ADD", SP, "a">>,
      <<"COPY", SP, "a", SP, "b">>,
      <<"COPY", SP, "a">>,
      <<"COPY", SP, "--chown", "=", "u", SP, "a">>,
      <<"ARG", SP, "K", "=", "v">>,
      <<"ENV", SP, "K", "=", "v">>,
      <<"ENV", SP, "K", SP, "v">>,
      <<"HEALTHCHECK", SP, "NONE">>,
      <<"HEALTHCHECK", SP, "x">>,
      <<"HEALTHCHECK", SP, "--interval", "=", "5s", SP, "--retries", SP, "3",
        SP, "CMD", SP, "x">>,
      <<"HEALTHCHECK", SP, "--bogus", SP, "CMD", SP, "x">>,
      <<"HEALTHCHECK", SP, "--timeout">>,
      <<"HEALTHCHECK", SP, "CMD">>,
      <<"HEALTHCHECK", SP, "CMD", SP, DQ, "a">>,
      <<"MAINTAINER", SP, "a">>,
      <<"STOPSIGNAL", SP, "a">>,
      <<"USER", SP, "u", ":", "g">>,
      <<"WORKDIR", SP, "/", "d">> }

\* the keys of the labels above, in the orders a HashMap can yield them
LabelOrders == { <<<<"k">>, <<"j">>>>, <<<<"j">>, <<"k">>>> }

Pending == [tag |-> "Pending"]

DfStart ==
    /\ df_input \in SeqsUpTo(DfLines, MaxLines)
    /\ df_lines = df_input
    /\ df_i = 1
    /\ config = EmptyConfig
    /\ current_command = <<>>
    /\ df_pass = 1
    /\ df_pc = "loop"
    /\ df_ret = Pending
    /\ df_again = Pending
    /\ dispatched = <<>>
    /\ before = EmptyConfig

DfFrame ==
    UNCHANGED <<order_vars, sub_state, pe_state, vol_state,
                cfg_state, mem_state, res_state, dp_state,
                nw_state, ct_state>>

\* ---- parse: one action per branch of the loop body
Line == Trim(df_lines[df_i])

InLoop == df_pc = "loop" /\ df_i <= Len(df_lines)

Skipped(line) == IF line = <<>> THEN TRUE ELSE Head(line) = "#"

Continued(line) == line # <<>> /\ line[Len(line)] = BS

\* if line.is_empty() || line.starts_with('#') { continue; }
SkipLine ==
    /\ InLoop
    /\ Skipped(Line)
    /\ df_i' = df_i + 1
    /\ UNCHANGED <<df_input, df_lines, config, current_command, df_pass, df_pc,
                   df_ret, df_again, dispatched, before>>
    /\ DfFrame

\* a joiner that forgets the space between the parts
ContinueLineNoSpace ==
    /\ InLoop
    /\ ~Skipped(Line)
    /\ Continued(Line)
    /\ current_command' = current_command \o SubSeq(Line, 1, Len(Line) - 1)
    /\ df_i' = df_i + 1
    /\ UNCHANGED <<df_input, df_lines, config, df_pass, df_pc, df_ret, df_again,
                   dispatched, before>>
    /\ DfFrame

\* if let Some(s) = line.strip_suffix('\\')
ContinueLine ==
    /\ InLoop
    /\ ~Skipped(Line)
    /\ Continued(Line)
    /\ current_command' = current_command \o SubSeq(Line, 1, Len(Line) - 1) \o <<SP>>
    /\ df_i' = df_i + 1
    /\ UNCHANGED <<df_input, df_lines, config, df_pass, df_pc, df_ret, df_again,
                   dispatched, before>>
    /\ DfFrame

\* parse_command(&mut config, logical)?: the next line on Ok, else the
\* result of this pass is the error (or the panic) and the loop is left
Dispatch(logical) ==
    LET r == parse_command(config, logical)
    IN  /\ dispatched' = Append(dispatched, logical)
        /\ before' = config
        /\ current_command' = IF r.tag = "Ok" THEN <<>> ELSE current_command
        /\ config' = IF r.tag = "Ok" THEN r.config ELSE config
        /\ df_i' = IF r.tag = "Ok" THEN df_i + 1 ELSE df_i
        /\ df_pc' = IF r.tag = "Ok" THEN df_pc ELSE "done"
        /\ df_ret' = IF r.tag # "Ok" /\ df_pass = 1 THEN r ELSE df_ret
        /\ df_again' = IF r.tag # "Ok" /\ df_pass = 2 THEN r ELSE df_again
        /\ UNCHANGED <<df_input, df_lines, df_pass>>
        /\ DfFrame

\* if !current_command.is_empty()
DispatchJoined ==
    /\ InLoop
    /\ ~Skipped(Line)
    /\ ~Continued(Line)
    /\ current_command # <<>>
    /\ Dispatch(current_command \o Line)

DispatchLine ==
    /\ InLoop
    /\ ~Skipped(Line)
    /\ ~Continued(Line)
    /\ current_command = <<>>
    /\ Dispatch(Line)

\* Ok(config) of the first parse
ParseReturn ==
    /\ df_pc = "loop"
    /\ df_i > Len(df_lines)
    /\ df_pass = 1
    /\ df_ret' = CmdOk(config)
    /\ df_pc' = "render"
    /\ UNCHANGED <<df_input, df_lines, df_i, config, current_command, df_pass,
                   df_again, dispatched, before>>
    /\ DfFrame

\* config.to_string(), handed to parse again
Render ==
    /\ df_pc = "render"
    /\ \E ord \in LabelOrders : df_lines' = render(df_ret.config, ord)
    /\ df_i' = 1
    /\ config' = EmptyConfig
    /\ current_command' = <<>>
    /\ df_pass' = 2
    /\ df_pc' = "loop"
    /\ dispatched' = <<>>
    /\ before' = EmptyConfig
    /\ UNCHANGED <<df_input, df_ret, df_again>>
    /\ DfFrame

\* Ok(config) of the parse of the rendered text
ReparseReturn ==
    /\ df_pc = "loop"
    /\ df_i > Len(df_lines)
    /\ df_pass = 2
    /\ df_again' = CmdOk(config)
    /\ df_pc' = "done"
    /\ UNCHANGED <<df_input, df_lines, df_i, config, current_command, df_pass,
                   df_ret, dispatched, before>>
    /\ DfFrame

DfInit ==
    /\ DfStart
    /\ OrderIdle
    /\ SubIdle
    /\ PeIdle
    /\ VolIdle
    /\ CfgIdle
    /\ MemIdle
    /\ ResIdle
    /\ DeployIdle
    /\ NetworkIdle
    /\ ContainerIdle

DfNext ==
    SkipLine \/ ContinueLine \/ DispatchJoined \/ DispatchLine \/ ParseReturn
        \/ Render \/ ReparseReturn

DfSpec == DfInit /\ [][DfNext]_vars

(***************************************************************************)
(* Service volumes (config/volume.rs): a volume string is a sequence of    *)
(* characters; a name or path segment without ':', '/' or '.' is one       *)
(* element.                                                                *)
(***************************************************************************)
\* ---- enum VolumeType
Named(name) == [type |-> "Named", name |-> name]

Bind(source, target, read_only) ==
    [type |-> "Bind", source |-> source, target |-> target, read_only |-> read_only]

Config(name, driver, driver_opts) ==
    [type |-> "Config", name |-> name, driver |-> driver, driver_opts |-> driver_opts]

\* ---- what serde hands to and takes from VolumeType
StringInput(text) == [form |-> "String", text |-> text]

LongInput(source, target, typ, read_only) ==
    [form |-> "Long", source |-> source, target |-> target, typ |-> typ,
     read_only |-> read_only]

NullInput == [form |-> "Null"]

VolOk(v) == [tag |-> "Ok", value |-> v]

VolErr(t) == [tag |-> "Err", err |-> [kind |-> "InvalidVolumeType", token |-> t]]

\* parts[0].starts_with('/') || parts[0].starts_with("./")
LooksLikePath(part) == StartsWith(part, <<"/">>) \/ StartsWith(part, <<".", "/">>)

\* format!("{}:{}", source, target) and format!("{}:{}:ro", source, target)
ShortForm(source, target, read_only) ==
    source \o <<":">> \o target \o (IF read_only THEN <<":", "ro">> ELSE <<>>)

\* impl Deserialize for VolumeType
deserialize(input) ==
    CASE input.form = "String" ->
           LET s     == input.text
               parts == SplitChar(s, ":")
           IN  IF Len(parts) = 2
               THEN IF LooksLikePath(parts[1])
                    THEN VolOk(Bind(parts[1], parts[2], FALSE))
                    ELSE VolOk(Named(s))
               ELSE IF Len(parts) = 3 /\ parts[3] = <<"ro">>
               THEN IF LooksLikePath(parts[1])
                    THEN VolOk(Bind(parts[1], parts[2], TRUE))
                    ELSE VolOk(Named(s))
               ELSE VolOk(Named(s))
      [] input.form = "Long" ->
           IF input.typ = Some(<<"bind">>)
           THEN VolOk(Bind(input.source, input.target, input.read_only))
           ELSE IF input.typ = Some(<<"volume">>) \/ input.typ = None
           THEN VolOk(Named(ShortForm(input.source, input.target, input.read_only)))
           ELSE VolErr(input.typ.value)
      [] input.form = "Null" -> VolOk(Config(<<>>, None, None))

\* impl Serialize for VolumeType; a Config of the model has no driver and
\* no driver_opts
serialize(v) ==
    CASE v.type = "Named" -> StringInput(v.name)
      [] v.type = "Bind" -> StringInput(ShortForm(v.source, v.target, v.read_only))
      [] v.type = "Config" -> NullInput

\* VolumeType::matches_name
matches_name(v, name) ==
    CASE v.type = "Named" -> SplitChar(v.name, ":")[1] = name
      [] v.type = "Bind" -> v.target = name
      [] v.type = "Config" -> v.name = name

\* ---- the inputs
VolSources == { <<"/", "h">>, <<".", "/", "h">>, <<".", ".", "/", "h">>, <<"data">>,
                <<"h", "/", "d">> }

VolTargets == { <<"/", "c">>, <<"data">> }

VolModes == { <<"ro">>, <<"rw">> }

VolTypes == { None, Some(<<"bind">>), Some(<<"volume">>), Some(<<"tmpfs">>) }

VolStrings ==
    VolSources
        \cup { s \o <<":">> \o t : s \in VolSources, t \in VolTargets }
        \cup { s \o <<":">> \o t \o <<":">> \o m :
                   s \in VolSources, t \in VolTargets, m \in VolModes }

VolInputs ==
    { StringInput(t) : t \in VolStrings }
        \cup { LongInput(s, t, ty, ro) :
                   s \in VolSources, t \in VolTargets, ty \in VolTypes,
                   ro \in BOOLEAN }
        \cup { NullInput }

VolStart ==
    /\ vol_input \in VolInputs
    /\ vol_value = Pending
    /\ vol_text = Pending
    /\ vol_again = Pending
    /\ vol_pc = "input"

VolFrame ==
    UNCHANGED <<order_vars, sub_state, pe_state, df_state,
                cfg_state, mem_state, res_state, dp_state,
                nw_state, ct_state>>

\* the manifest parser reads the volume of a service
Deserialize ==
    /\ vol_pc = "input"
    /\ vol_value' = deserialize(vol_input)
    /\ vol_pc' = IF deserialize(vol_input).tag = "Ok" THEN "value" ELSE "done"
    /\ UNCHANGED <<vol_input, vol_text, vol_again>>
    /\ VolFrame

\* the value is written back
Serialize ==
    /\ vol_pc = "value"
    /\ vol_text' = serialize(vol_value.value)
    /\ vol_pc' = "text"
    /\ UNCHANGED <<vol_input, vol_value, vol_again>>
    /\ VolFrame

\* and what was written is read again
DeserializeAgain ==
    /\ vol_pc = "text"
    /\ vol_again' = deserialize(vol_text)
    /\ vol_pc' = "done"
    /\ UNCHANGED <<vol_input, vol_value, vol_text>>
    /\ VolFrame

VolInit ==
    /\ VolStart
    /\ OrderIdle
    /\ SubIdle
    /\ PeIdle
    /\ DfIdle
    /\ CfgIdle
    /\ MemIdle
    /\ ResIdle
    /\ DeployIdle
    /\ NetworkIdle
    /\ ContainerIdle

VolNext == Deserialize \/ Serialize \/ DeserializeAgain

VolSpec == VolInit /\ [][VolNext]_vars

(***************************************************************************)
(* ComposeConfig: collect_volumes, validate_required_volumes and           *)
(* validate_required_env_vars (config/compose.rs)                          *)
(***************************************************************************)
\* the text before the first ':' of a named volume
VolumeName(name) == SplitChar(name, ":")[1]

\* the volumes of a service; none for volumes: None
VolumesOf(service) == IF service.volumes.some THEN service.volumes.value ELSE <<>>

RECURSIVE ValuesInOrder(_, _)
\* for service in self.services.values(), for volume in volumes: every
\* volume of every service, in the iteration order ord of the HashMap
ValuesInOrder(svcs, ord) ==
    IF ord = <<>> THEN <<>>
    ELSE VolumesOf(svcs[Head(ord)]) \o ValuesInOrder(svcs, Tail(ord))

RECURSIVE UsedVolumes(_, _, _)
\* used_volumes after the loop: used_volumes.insert(volume_name, volume) for
\* every Named volume whose name is no key of self.volumes
UsedVolumes(list, top, used) ==
    IF list = <<>> THEN used
    ELSE LET volume == Head(list)
         IN  IF volume.type = "Named" /\ VolumeName(volume.name) \notin DOMAIN top
             THEN UsedVolumes(Tail(list), top,
                              MapInsert(used, VolumeName(volume.name), volume))
             ELSE UsedVolumes(Tail(list), top, used)

\* ComposeConfig::collect_volumes: self.volumes afterwards
collect_volumes(svcs, ord, top) ==
    Extend(top, UsedVolumes(ValuesInOrder(svcs, ord), top, EmptyMap))

CfgOk == [tag |-> "Ok"]

CfgErr(kind, service, name) ==
    [tag |-> "Err", err |-> [kind |-> kind, service |-> service, name |-> name]]

\* volumes.iter().any(|v| v.matches_name(required_volume))
AnyMatches(volumes, name) == \E i \in 1..Len(volumes) : matches_name(volumes[i], name)

RECURSIVE FirstMissing(_, _)
\* the first name of names that is not in present, if there is one
FirstMissing(names, present) ==
    IF names = <<>> THEN None
    ELSE IF Head(names) \notin present THEN Some(Head(names))
    ELSE FirstMissing(Tail(names), present)

RECURSIVE validate_required_volumes(_, _, _)
\* ComposeConfig::validate_required_volumes, the services iterated in ord
validate_required_volumes(svcs, ord, required) ==
    IF ord = <<>> THEN CfgOk
    ELSE LET service == svcs[Head(ord)]
             missing == FirstMissing(required,
                            {n \in Range(required) :
                                 AnyMatches(service.volumes.value, n)})
         IN  IF service.volumes.some /\ missing.some
             THEN CfgErr("MissingRequiredVolume", Head(ord), missing.value)
             ELSE validate_required_volumes(svcs, Tail(ord), required)

RECURSIVE validate_required_env_vars_lenient(_, _, _)
\* a validation that passes over a service without an environment map
validate_required_env_vars_lenient(svcs, ord, env_names) ==
    IF ord = <<>> THEN CfgOk
    ELSE LET service == svcs[Head(ord)]
             missing == FirstMissing(env_names, DOMAIN service.environment.map)
         IN  IF service.environment.some /\ missing.some
             THEN CfgErr("MissingRequiredEnvVar", Head(ord), missing.value)
             ELSE validate_required_env_vars_lenient(svcs, Tail(ord), env_names)

RECURSIVE validate_required_env_vars(_, _, _)
\* ComposeConfig::validate_required_env_vars, the services iterated in ord
validate_required_env_vars(svcs, ord, env_names) ==
    IF ord = <<>> THEN CfgOk
    ELSE LET service == svcs[Head(ord)]
             missing == FirstMissing(env_names, DOMAIN service.environment.map)
         IN  IF service.environment.some
             THEN IF missing.some
                  THEN CfgErr("MissingRequiredEnvVar", Head(ord), missing.value)
                  ELSE validate_required_env_vars(svcs, Tail(ord), env_names)
             ELSE IF env_names # <<>>
             THEN CfgErr("NoEnvironment", Head(ord), <<>>)
             ELSE validate_required_env_vars(svcs, Tail(ord), env_names)

\* ---- the inputs
\* the number of volumes of a service
MaxVols == 2

CfgNames == {"a", "b"}

\* service volumes as the manifest parser produces them
CfgVolumeValues ==
    { deserialize(i).value :
          i \in { StringInput(<<"data", ":", "/", "c">>),
                  StringInput(<<"data", ":", "/", "c", ":", "ro">>),
                  StringInput(<<"db">>),
                  StringInput(<<"/", "h", ":", "cache">>) } }

CfgVolumeLists == {None} \cup {Some(l) : l \in SeqsUpTo(CfgVolumeValues, MaxVols)}

CfgEnvs == {NoneEnv} \cup {SomeEnv([k \in D |-> <<"v">>]) : D \in SUBSET {"K", "L"}}

\* a service of the model has volumes or an environment map or neither: the
\* functions above each read one of the two fields only
CfgServiceSet ==
    [volumes : CfgVolumeLists, environment : {NoneEnv}]
        \cup [volumes : {None}, environment : CfgEnvs]

CfgServiceMaps == UNION {[D -> CfgServiceSet] : D \in SUBSET CfgNames}

\* the top-level volumes section as written
CfgTopLevels ==
    { EmptyMap, [k \in {<<"data">>} |-> Config(<<>>, None, None)] }

RequiredVolumeLists == { <<>>, <<<<"data">>>>, <<<<"cache">>, <<"db">>>> }

RequiredEnvLists == { <<>>, <<"K">>, <<"L", "K">> }

NoCall == [fn |-> "none"]

CfgStart ==
    /\ cfg_services \in CfgServiceMaps
    /\ cfg_written \in CfgTopLevels
    /\ cfg_volumes = cfg_written
    /\ cfg_order = <<>>
    /\ cfg_call = NoCall
    /\ cfg_ret = Pending
    /\ cfg_pc = "parsed"

CfgFrame ==
    UNCHANGED <<order_vars, sub_state, pe_state, df_state,
                vol_state, mem_state, res_state, dp_state,
                nw_state, ct_state>>

\* config.collect_volumes()
CollectVolumes ==
    /\ cfg_pc = "parsed"
    /\ \E ord \in Orders(DOMAIN cfg_services) :
           /\ cfg_order' = ord
           /\ cfg_volumes' = collect_volumes(cfg_services, ord, cfg_volumes)
    /\ cfg_pc' = "collected"
    /\ UNCHANGED <<cfg_services, cfg_written, cfg_call, cfg_ret>>
    /\ CfgFrame

\* config.validate_required_volumes(required)
ValidateRequiredVolumes ==
    /\ cfg_pc = "collected"
    /\ \E required \in RequiredVolumeLists, ord \in Orders(DOMAIN cfg_services) :
           /\ cfg_call' = [fn |-> "validate_required_volumes", arg |-> required]
           /\ cfg_ret' = validate_required_volumes(cfg_services, ord, required)
    /\ cfg_pc' = "done"
    /\ UNCHANGED <<cfg_services, cfg_written, cfg_volumes, cfg_order>>
    /\ CfgFrame

\* config.validate_required_env_vars(vars)
ValidateRequiredEnvVars ==
    /\ cfg_pc = "collected"
    /\ \E env_names \in RequiredEnvLists, ord \in Orders(DOMAIN cfg_services) :
           /\ cfg_call' = [fn |-> "validate_required_env_vars", arg |-> env_names]
           /\ cfg_ret' = validate_required_env_vars(cfg_services, ord, env_names)
    /\ cfg_pc' = "done"
    /\ UNCHANGED <<cfg_services, cfg_written, cfg_volumes, cfg_order>>
    /\ CfgFrame

CfgInit ==
    /\ CfgStart
    /\ OrderIdle
    /\ SubIdle
    /\ PeIdle
    /\ DfIdle
    /\ VolIdle
    /\ MemIdle
    /\ ResIdle
    /\ DeployIdle
    /\ NetworkIdle
    /\ ContainerIdle

CfgNext == CollectVolumes \/ ValidateRequiredVolumes \/ ValidateRequiredEnvVars

CfgSpec == CfgInit /\ [][CfgNext]_vars

(***************************************************************************)
(* parse_memory_string (config/requirements.rs).  The text is a sequence   *)
(* of characters.  An i64 is a sign and a magnitude; a magnitude is written *)
(* in limbs of ten bits, lowest first, so that n * 1024 is a shift by one  *)
(* limb and no value of the model leaves the range of the checker.         *)
(***************************************************************************)
\* the 1024 of base * 1024
Kilo == 1024

Digits == {"0", "1", "2", "3", "4", "5", "6", "7", "8", "9"}

DigitValue(c) ==
    CASE c = "0" -> 0 [] c = "1" -> 1 [] c = "2" -> 2 [] c = "3" -> 3
      [] c = "4" -> 4 [] c = "5" -> 5 [] c = "6" -> 6 [] c = "7" -> 7
      [] c = "8" -> 8 [] c = "9" -> 9

\* ---- magnitudes
RECURSIVE Normal(_)
\* without leading zero limbs
Normal(l) ==
    IF l # <<>> /\ l[Len(l)] = 0 THEN Normal(SubSeq(l, 1, Len(l) - 1)) ELSE l

RECURSIVE MulAdd(_, _, _)
\* l * m + carry, for m and carry up to Kilo
MulAdd(l, m, carry) ==
    IF l = <<>> THEN (IF carry = 0 THEN <<>> ELSE <<carry>>)
    ELSE <<(Head(l) * m + carry) % Kilo>>
             \o MulAdd(Tail(l), m, (Head(l) * m + carry) \div Kilo)

\* l * 1024
ShiftLimb(l) == IF l = <<>> THEN <<>> ELSE <<0>> \o l

\* the limbs of 2^63 are six zero limbs and an 8, those of 2^64 six and a 16
AtLeast2to63(l) == Len(l) > 7 \/ (Len(l) = 7 /\ l[7] >= 8)

Is2to63(l) == l = <<0, 0, 0, 0, 0, 0, 8>>

\* l mod 2^64
Mod2to64(l) ==
    Normal([i \in 1..(IF Len(l) < 7 THEN Len(l) ELSE 7) |->
                IF i = 7 THEN l[i] % 16 ELSE l[i]])

\* 2^64 - l, for 0 < l < 2^64: the complement of every limb, plus one
Complement64(l) ==
    Normal(MulAdd([i \in 1..7 |->
                       (IF i = 7 THEN 15 ELSE Kilo - 1) - (IF i <= Len(l) THEN l[i] ELSE 0)],
                  1, 1))

\* ---- i64
I64(neg, mag) == [neg |-> neg /\ mag # <<>>, mag |-> mag]

\* the value fits an i64
FitsI64(neg, mag) == ~AtLeast2to63(mag) \/ (neg /\ Is2to63(mag))

\* the i64 that wrapping arithmetic leaves for the value
WrapI64(neg, mag) ==
    LET r == Mod2to64(mag)
        u == IF neg /\ r # <<>> THEN Complement64(r) ELSE r
    IN  IF AtLeast2to63(u) THEN I64(TRUE, Complement64(u)) ELSE I64(FALSE, u)

RECURSIVE DecimalLimbs(_, _)
\* the magnitude of a run of digits, read onto acc
DecimalLimbs(digits, acc) ==
    IF digits = <<>> THEN acc
    ELSE DecimalLimbs(Tail(digits), MulAdd(acc, 10, DigitValue(Head(digits))))

\* str::parse::<i64>(): an optional sign and at least one digit, in range
ParseI64(t) ==
    LET signed == t # <<>> /\ t[1] \in {"+", "-"}
        digits == IF signed THEN Tail(t) ELSE t
        neg    == signed /\ t[1] = "-"
        mag    == Normal(DecimalLimbs(digits, <<>>))
    IN  IF digits = <<>> \/ Range(digits) \cap Digits # Range(digits) THEN None
        ELSE IF ~FitsI64(neg, mag) THEN None
        ELSE Some(I64(neg, mag))

RECURSIVE TimesKilo(_, _)
\* base * 1024 * ... * 1024 (k times) as a mathematical value
TimesKilo(mag, k) == IF k = 0 THEN mag ELSE TimesKilo(ShiftLimb(mag), k - 1)

\* the bytes of a character in UTF-8
Utf8Len(c) == IF c = "é" THEN 2 ELSE 1

RECURSIVE ByteLen(_)
\* str::len
ByteLen(t) == IF t = <<>> THEN 0 ELSE Utf8Len(Head(t)) + ByteLen(Tail(t))

MemOk(v) == [tag |-> "Ok", value |-> v]

MemErr(kind) == [tag |-> "Err", err |-> [variant |-> "InvalidResourceLimit", kind |-> kind]]

MemPanic == [tag |-> "Panic"]

\* base * 1024^k in i64: the product when it fits; when it does not, a
\* panic in a build with overflow checks and the wrapped value without
Multiply(base, k) ==
    IF FitsI64(base.neg, TimesKilo(base.mag, k))
    THEN {MemOk(I64(base.neg, TimesKilo(base.mag, k)))}
    ELSE {MemPanic, MemOk(WrapI64(base.neg, TimesKilo(base.mag, k)))}

UpperUnit(c) ==
    CASE c = "k" -> "K" [] c = "m" -> "M" [] c = "g" -> "G" [] c = "x" -> "X"
      [] OTHER -> c

\* parse_memory_string: the set of outcomes the builds can give
parse_memory_string(memory) ==
    LET len == ByteLen(memory)
    IN  \* len - 1 underflows for the empty string; split_at off a character
        \* boundary panics
        IF len = 0 \/ Utf8Len(memory[Len(memory)]) # 1 THEN {MemPanic}
        ELSE LET num  == SubSeq(memory, 1, Len(memory) - 1)
                 unit == UpperUnit(memory[Len(memory)])
                 base == ParseI64(num)
             IN  IF ~base.some THEN {MemErr("InvalidMemoryValue")}
                 ELSE CASE unit = "K" -> Multiply(base.value, 1)
                        [] unit = "M" -> Multiply(base.value, 2)
                        [] unit = "G" -> Multiply(base.value, 3)
                        [] OTHER -> {MemErr("InvalidMemoryUnit")}

\* ---- the inputs
MemMagnitudes ==
    { <<>>, <<"0">>, <<"1">>, <<"5", "1", "2">>, <<"0", "0", "7">>,
      <<"1", "2", ".", "5">>, <<"a", "b", "c">>, <<"-", "1">>, <<"+", "2">>,
      <<"8", "5", "8", "9", "9", "3", "4", "5", "9", "2">>,
      <<"9", "2", "2", "3", "3", "7", "2", "0", "3", "6", "8", "5", "4", "7", "7",
        "5", "8", "0", "7">>,
      <<"9", "2", "2", "3", "3", "7", "2", "0", "3", "6", "8", "5", "4", "7", "7",
        "5", "8", "0", "8">> }

MemUnits == { <<>>, <<"K">>, <<"M">>, <<"G">>, <<"k">>, <<"g">>, <<"x">>, <<"B">>,
              <<"é">>, <<"G", "B">> }

MemInputs == { n \o u : n \in MemMagnitudes, u \in MemUnits }

MemStart ==
    /\ mem_input \in MemInputs
    /\ mem_ret = Pending
    /\ mem_pc = "call"

MemFrame ==
    UNCHANGED <<order_vars, sub_state, pe_state, df_state,
                vol_state, cfg_state, res_state, dp_state,
                nw_state, ct_state>>

ParseMemoryString ==
    /\ mem_pc = "call"
    /\ mem_ret' \in parse_memory_string(mem_input)
    /\ mem_pc' = "done"
    /\ UNCHANGED mem_input
    /\ MemFrame

MemInit ==
    /\ MemStart
    /\ OrderIdle
    /\ SubIdle
    /\ PeIdle
    /\ DfIdle
    /\ VolIdle
    /\ CfgIdle
    /\ ResIdle
    /\ DeployIdle
    /\ NetworkIdle
    /\ ContainerIdle

MemNext == ParseMemoryString

MemSpec == MemInit /\ [][MemNext]_vars

(***************************************************************************)
(* ComposeConfig::resolve_env on a whole document (config/compose.rs):     *)
(* the services with their volumes and the top-level volumes.  The process *)
(* environment that std::env::var reads is the argument penv.              *)
(***************************************************************************)
OptionMap(o, F(_)) == IF o.some THEN Some(F(o.value)) ELSE None

resolve_volume(volume, env, penv) ==
    CASE volume.type = "Named" -> Named(resolve_env_value(volume.name, env, penv))
      [] volume.type = "Bind" ->
            Bind(resolve_env_value(volume.source, env, penv),
                 resolve_env_value(volume.target, env, penv), volume.read_only)
      [] volume.type = "Config" ->
            Config(resolve_env_value(volume.name, env, penv),
                   OptionMap(volume.driver, LAMBDA d : resolve_env_value(d, env, penv)),
                   OptionMap(volume.driver_opts,
                             LAMBDA opts : [k \in DOMAIN opts |->
                                                resolve_env_value(opts[k], env, penv)]))

ResolveService(service, env, penv) ==
    [environment |->
         IF service.environment.some
         THEN SomeEnv([k \in DOMAIN service.environment.map |->
                           resolve_env_value(service.environment.map[k], env, penv)])
         ELSE NoneEnv,
     volumes |->
         OptionMap(service.volumes,
                   LAMBDA vs : [i \in 1..Len(vs) |-> resolve_volume(vs[i], env, penv)])]

\* resolve_env on the services and on the volumes section
resolve_document(doc, env, penv) ==
    [services |-> [n \in DOMAIN doc.services |->
                       ResolveService(doc.services[n], env, penv)],
     volumes |-> [n \in DOMAIN doc.volumes |->
                      resolve_volume(doc.volumes[n], env, penv)]]

\* ---- the inputs
ResSegments == Segments \cup {BareRef(VarAB)}

ResTexts == {Flatten(segs) : segs \in SeqsUpTo(ResSegments, MaxSegs)}

ResService(environment, volumes) == [environment |-> environment, volumes |-> volumes]

\* the documents: the text in one of the fields resolve_env rewrites
ResDocsOf(text) ==
    { [services |-> ("web" :> ResService(SomeEnv("K" :> text), None)),
       volumes |-> EmptyMap],
      [services |-> ("web" :> ResService(NoneEnv, Some(<<Named(text)>>))),
       volumes |-> EmptyMap],
      [services |-> ("web" :> ResService(NoneEnv, Some(<<Bind(text, <<"/">>, FALSE)>>))),
       volumes |-> EmptyMap],
      [services |-> EmptyMap,
       volumes |-> ("data" :> Config(<<"d">>, Some(text), None))] }

ResDocs == UNION {ResDocsOf(text) : text \in ResTexts}

ResVarMaps ==
    {m \in VarMaps : \A n \in DOMAIN m : m[n] \in {<<>>, <<"v">>, <<"w">>, <<"u">>}}

\* the process environments of the two runs
ProcessEnvs == {EmptyMap, VarA :> <<"s">>}

ResStart ==
    /\ res_doc \in ResDocs
    /\ res_vars \in ResVarMaps
    /\ res_envs \in ProcessEnvs \X ProcessEnvs
    /\ res_out = <<>>
    /\ res_pc = "first"

ResFrame ==
    UNCHANGED <<order_vars, sub_state, pe_state, df_state,
                vol_state, cfg_state, mem_state, dp_state,
                nw_state, ct_state>>

\* one run of resolve_env, in the first process environment
ResolveEnv ==
    /\ res_pc = "first"
    /\ res_out' = <<resolve_document(res_doc, res_vars, res_envs[1])>>
    /\ res_pc' = "second"
    /\ UNCHANGED <<res_doc, res_vars, res_envs>>
    /\ ResFrame

\* a run on the same document and map, in the second process environment
ResolveEnvAgain ==
    /\ res_pc = "second"
    /\ res_out' = Append(res_out, resolve_document(res_doc, res_vars, res_envs[2]))
    /\ res_pc' = "done"
    /\ UNCHANGED <<res_doc, res_vars, res_envs>>
    /\ ResFrame

ResInit ==
    /\ ResStart
    /\ OrderIdle
    /\ SubIdle
    /\ PeIdle
    /\ DfIdle
    /\ VolIdle
    /\ CfgIdle
    /\ MemIdle
    /\ DeployIdle
    /\ NetworkIdle
    /\ ContainerIdle

ResNext == ResolveEnv \/ ResolveEnvAgain

ResSpec == ResInit /\ [][ResNext]_vars

(***************************************************************************)
(* DockerBuilder::deploy_compose_with_base_dir and deploy_service          *)
(* (builder/compose.rs).  The runtime is the log of the requests sent to   *)
(* it, each with its outcome; a request may fail.  The services of this    *)
(* part have no volumes of their own, so make_bind_paths_absolute and      *)
(* collect_volumes leave the document as it is.                            *)
(***************************************************************************)
Request(op, name, ok) == [op |-> op, name |-> name, ok |-> ok]

DpOk(ids) == [tag |-> "Ok", container_ids |-> ids]

DpErr(variant) == [tag |-> "Err", variant |-> variant]

DpPanic == [tag |-> "Panic"]

\* the volumes section: a named volume, or an entry that is no Named value
DeployVolumes ==
    { EmptyMap,
      "data" :> Named(<<"data">>),
      "conf" :> Config(<<"conf">>, None, None) }

DeployStart ==
    /\ services \in ServiceMaps
    /\ ro_pc = "idle"
    /\ remaining = {}
    /\ stack = <<>>
    /\ visited = {}
    /\ temp_visited = {}
    /\ result = <<>>
    /\ ret = Pending
    /\ expanded = [n \in ServiceNames |-> 0]
    /\ dp_volumes \in DeployVolumes
    /\ dp_todo = {}
    /\ dp_order = <<>>
    /\ dp_step = "create"
    /\ dp_log = <<>>
    /\ container_ids = EmptyMap
    /\ dp_ret = Pending
    /\ dp_pc = "network"

DeployFrame ==
    UNCHANGED <<sub_state, pe_state, df_state, vol_state,
                cfg_state, mem_state, res_state, nw_state,
                ct_state>>

\* self.client.create_network(..).await.map_err(BollardError)?
CreateNetwork ==
    /\ dp_pc = "network"
    /\ \E ok \in BOOLEAN :
         /\ dp_log' = Append(dp_log, Request("create_network", "compose_network", ok))
         /\ IF ok
            THEN /\ dp_pc' = "volumes"
                 /\ dp_todo' = DOMAIN dp_volumes
                 /\ UNCHANGED dp_ret
            ELSE /\ dp_pc' = "done"
                 /\ dp_ret' = DpErr("BollardError")
                 /\ UNCHANGED dp_todo
    /\ UNCHANGED <<order_vars, dp_volumes, dp_order, dp_step, container_ids>>
    /\ DeployFrame

\* for (volume_name, volume_type) in &config.volumes: create_volume for a
\* Named entry, nothing for another
CreateVolume ==
    /\ dp_pc = "volumes"
    /\ \E v \in dp_todo :
         IF dp_volumes[v].type = "Named"
         THEN \E ok \in BOOLEAN :
                /\ dp_log' = Append(dp_log, Request("create_volume", v, ok))
                /\ IF ok
                   THEN /\ dp_todo' = dp_todo \ {v}
                        /\ UNCHANGED <<dp_pc, dp_ret>>
                   ELSE /\ dp_pc' = "done"
                        /\ dp_ret' = DpErr("BollardError")
                        /\ UNCHANGED dp_todo
         ELSE /\ dp_todo' = dp_todo \ {v}
              /\ UNCHANGED <<dp_log, dp_pc, dp_ret>>
    /\ UNCHANGED <<order_vars, dp_volumes, dp_order, dp_step, container_ids>>
    /\ DeployFrame

\* the call config.resolve_service_order()
CallResolveServiceOrder ==
    /\ dp_pc = "volumes"
    /\ dp_todo = {}
    /\ ro_pc = "idle"
    /\ ro_pc' = "loop"
    /\ remaining' = DOMAIN services
    /\ dp_pc' = "order"
    /\ UNCHANGED <<services, stack, visited, temp_visited, result, ret, expanded>>
    /\ UNCHANGED <<dp_volumes, dp_todo, dp_order, dp_step, dp_log, container_ids, dp_ret>>
    /\ DeployFrame

\* TakeServiceOrder with the order taken from its end
TakeServiceOrderReversed ==
    /\ dp_pc = "order"
    /\ ro_pc = "done"
    /\ IF ret.tag = "Ok"
       THEN /\ dp_order' = [i \in 1..Len(ret.order) |-> ret.order[Len(ret.order) + 1 - i]]
            /\ dp_pc' = "services"
            /\ UNCHANGED dp_ret
       ELSE /\ dp_ret' = [tag |-> "Err", variant |-> "ValidationError", msg |-> ret.msg]
            /\ dp_pc' = "done"
            /\ UNCHANGED dp_order
    /\ UNCHANGED <<order_vars, dp_volumes, dp_todo, dp_step, dp_log, container_ids>>
    /\ DeployFrame

\* let service_order = config.resolve_service_order()?
TakeServiceOrder ==
    /\ dp_pc = "order"
    /\ ro_pc = "done"
    /\ IF ret.tag = "Ok"
       THEN /\ dp_order' = ret.order
            /\ dp_pc' = "services"
            /\ UNCHANGED dp_ret
       ELSE /\ dp_ret' = [tag |-> "Err", variant |-> "ValidationError", msg |-> ret.msg]
            /\ dp_pc' = "done"
            /\ UNCHANGED dp_order
    /\ UNCHANGED <<order_vars, dp_volumes, dp_todo, dp_step, dp_log, container_ids>>
    /\ DeployFrame

\* config.services.get(&service_name).unwrap() and deploy_service up to
\* create_container: the image may be missing or fail to build or pull
CreateContainer ==
    /\ dp_pc = "services"
    /\ dp_order # <<>>
    /\ dp_step = "create"
    /\ LET name == Head(dp_order)
       IN  IF name \notin DOMAIN services
           THEN /\ dp_ret' = DpPanic
                /\ dp_pc' = "done"
                /\ UNCHANGED <<dp_log, dp_step>>
           ELSE \E outcome \in {"image", "refused", "created"} :
                  CASE outcome = "image" ->
                         /\ \E variant \in {"DockerfileError", "ValidationError",
                                            "BollardError"} :
                              dp_ret' = DpErr(variant)
                         /\ dp_pc' = "done"
                         /\ UNCHANGED <<dp_log, dp_step>>
                    [] outcome = "refused" ->
                         /\ dp_log' = Append(dp_log,
                                             Request("create_container", name, FALSE))
                         /\ dp_ret' = DpErr("BollardError")
                         /\ dp_pc' = "done"
                         /\ UNCHANGED dp_step
                    [] outcome = "created" ->
                         /\ dp_log' = Append(dp_log,
                                             Request("create_container", name, TRUE))
                         /\ dp_step' = "start"
                         /\ UNCHANGED <<dp_ret, dp_pc>>
    /\ UNCHANGED <<order_vars, dp_volumes, dp_todo, dp_order, container_ids>>
    /\ DeployFrame

\* start_container(&container.id), Ok(container.id) and
\* container_ids.insert(service_name, container_id)
StartContainer ==
    /\ dp_pc = "services"
    /\ dp_order # <<>>
    /\ dp_step = "start"
    /\ LET name == Head(dp_order)
       IN  \E ok \in BOOLEAN :
             /\ dp_log' = Append(dp_log, Request("start_container", name, ok))
             /\ IF ok
                THEN /\ container_ids' = Extend(container_ids, name :> name)
                     /\ dp_order' = Tail(dp_order)
                     /\ dp_step' = "create"
                     /\ UNCHANGED <<dp_ret, dp_pc>>
                ELSE /\ dp_ret' = DpErr("BollardError")
                     /\ dp_pc' = "done"
                     /\ UNCHANGED <<container_ids, dp_order, dp_step>>
    /\ UNCHANGED <<order_vars, dp_volumes, dp_todo>>
    /\ DeployFrame

\* Ok(container_ids)
ReturnContainerIds ==
    /\ dp_pc = "services"
    /\ dp_order = <<>>
    /\ dp_ret' = DpOk(container_ids)
    /\ dp_pc' = "done"
    /\ UNCHANGED <<order_vars, dp_volumes, dp_todo, dp_order, dp_step, dp_log,
                   container_ids>>
    /\ DeployFrame

DeployInit ==
    /\ DeployStart
    /\ SubIdle
    /\ PeIdle
    /\ DfIdle
    /\ VolIdle
    /\ CfgIdle
    /\ MemIdle
    /\ ResIdle
    /\ NetworkIdle
    /\ ContainerIdle

DeployNext ==
    \/ CreateNetwork
    \/ CreateVolume
    \/ CallResolveServiceOrder
    \/ RootStep
    \/ DepStep
    \/ FinishStep
    \/ ReturnOk
    \/ TakeServiceOrder
    \/ CreateContainer
    \/ StartContainer
    \/ ReturnContainerIds

DeploySpec == DeployInit /\ [][DeployNext]_vars

(***************************************************************************)
(* DockerBuilder::create_network_with_retry (builder/management.rs).  The  *)
(* runtime is the log of the outcomes of the create_network requests.  A   *)
(* Duration is zero or a power of two of seconds, written as its exponent; *)
(* the seconds of a Duration are a u64.                                    *)
(***************************************************************************)
\* the retries the model tries
MaxRetries == 4

NwOk == [tag |-> "Ok"]

\* DockerError::BollardError(e), e the error of the attempt with this number
NwErr(attempt) == [tag |-> "Err", variant |-> "BollardError", attempt |-> attempt]

NwPanic == [tag |-> "Panic"]

InitialDelays == {NoDelay, 0, 1, DurationBits - 3, DurationBits - 2, DurationBits - 1}

NetworkStart ==
    /\ max_retries \in 0..MaxRetries
    /\ attempts = 0
    /\ delay \in InitialDelays
    /\ nw_log = <<>>
    /\ nw_ret = Pending
    /\ nw_pc = "loop"

NetworkFrame ==
    UNCHANGED <<order_vars, sub_state, pe_state, df_state,
                vol_state, cfg_state, mem_state, res_state,
                dp_state, ct_state>>

\* the body of the while loop up to the sleep: one create_network request
Attempt ==
    /\ nw_pc = "loop"
    /\ attempts < max_retries
    /\ \E ok \in BOOLEAN :
         /\ nw_log' = Append(nw_log, ok)
         /\ IF ok
            THEN /\ nw_ret' = NwOk
                 /\ nw_pc' = "done"
                 /\ UNCHANGED attempts
            ELSE IF attempts = max_retries - 1
            THEN /\ nw_ret' = NwErr(Len(nw_log) + 1)
                 /\ nw_pc' = "done"
                 /\ UNCHANGED attempts
            ELSE /\ attempts' = attempts + 1
                 /\ nw_pc' = "sleep"
                 /\ UNCHANGED nw_ret
    /\ UNCHANGED <<max_retries, delay>>
    /\ NetworkFrame

\* sleep(delay).await; delay *= 2: the product panics when it does not fit
SleepAndDouble ==
    /\ nw_pc = "sleep"
    /\ IF delay = DurationBits - 1
       THEN /\ nw_ret' = NwPanic
            /\ nw_pc' = "done"
            /\ UNCHANGED delay
       ELSE /\ delay' = IF delay = NoDelay THEN NoDelay ELSE delay + 1
            /\ nw_pc' = "loop"
            /\ UNCHANGED nw_ret
    /\ UNCHANGED <<max_retries, attempts, nw_log>>
    /\ NetworkFrame

\* the Ok(()) after the loop
LoopExit ==
    /\ nw_pc = "loop"
    /\ attempts >= max_retries
    /\ nw_ret' = NwOk
    /\ nw_pc' = "done"
    /\ UNCHANGED <<max_retries, attempts, delay, nw_log>>
    /\ NetworkFrame

NetworkInit ==
    /\ NetworkStart
    /\ OrderIdle
    /\ SubIdle
    /\ PeIdle
    /\ DfIdle
    /\ VolIdle
    /\ CfgIdle
    /\ MemIdle
    /\ ResIdle
    /\ DeployIdle
    /\ ContainerIdle

NetworkNext == Attempt \/ SleepAndDouble \/ LoopExit

NetworkSpec == NetworkInit /\ [][NetworkNext]_vars

(***************************************************************************)
(* Container (container.rs): create, start, stop, wait and remove.  The    *)
(* runtime is the log of the requests sent to it, each with the id it was  *)
(* sent for (for create: the id the runtime gave) and its outcome.         *)
(***************************************************************************)
\* the calls made on one Container
MaxCalls == 3

CtOk == [tag |-> "Ok"]

CtErr(op) == [tag |-> "Err", op |-> op]

Sent(op, id, ok) == [op |-> op, id |-> id, ok |-> ok]

\* the call made last: its name and what the object and the log were before
Call(fn) == [fn |-> fn, had_id |-> ct_id.some, sent_before |-> Len(ct_log)]

\* the id the runtime gives the next container it creates
NextId(log) == Cardinality({i \in 1..Len(log) : log[i].op = "create" /\ log[i].ok}) + 1

\* create(): (log, id, ret) after the call on the object with this log and id
CreateOutcomes(log, id) ==
    { [log |-> Append(log, Sent("create", Some(NextId(log)), TRUE)),
       id |-> Some(NextId(log)), ret |-> CtOk],
      [log |-> Append(log, Sent("create", None, FALSE)),
       id |-> id, ret |-> CtErr("create")] }

\* wait()
WaitOutcomes(log, id) ==
    IF ~id.some THEN {[log |-> log, id |-> id, ret |-> CtOk]}
    ELSE { [log |-> Append(log, Sent("wait", id, ok)), id |-> id,
            ret |-> IF ok THEN CtOk ELSE CtErr("wait")] : ok \in BOOLEAN }

\* start_container with self.id.as_ref().unwrap(), then wait() if asked
StartRequest(log, id, wait_for_exit) ==
    UNION { IF ~ok THEN {[log |-> Append(log, Sent("start", id, FALSE)), id |-> id,
                          ret |-> CtErr("start")]}
            ELSE IF wait_for_exit
                 THEN WaitOutcomes(Append(log, Sent("start", id, TRUE)), id)
                 ELSE {[log |-> Append(log, Sent("start", id, TRUE)), id |-> id,
                        ret |-> CtOk]}
            : ok \in BOOLEAN }

\* start that sends its request whether or not create succeeded
StartOutcomesUnchecked(log, id, wait_for_exit) ==
    IF id.some THEN StartRequest(log, id, wait_for_exit)
    ELSE UNION { StartRequest(c.log, c.id, wait_for_exit) : c \in CreateOutcomes(log, id) }

\* start(wait_for_exit)
StartOutcomes(log, id, wait_for_exit) ==
    IF id.some THEN StartRequest(log, id, wait_for_exit)
    ELSE UNION { IF c.ret.tag = "Ok" THEN StartRequest(c.log, c.id, wait_for_exit)
                 ELSE {c}
                 : c \in CreateOutcomes(log, id) }

\* stop()
StopOutcomes(log, id) ==
    IF ~id.some THEN {[log |-> log, id |-> id, ret |-> CtOk]}
    ELSE { [log |-> Append(log, Sent("stop", id, ok)), id |-> id,
            ret |-> IF ok THEN CtOk ELSE CtErr("stop")] : ok \in BOOLEAN }

\* remove(): self.id.take()
RemoveOutcomes(log, id) ==
    IF ~id.some THEN {[log |-> log, id |-> None, ret |-> CtOk]}
    ELSE { [log |-> Append(log, Sent("remove", id, ok)), id |-> None,
            ret |-> IF ok THEN CtOk ELSE CtErr("remove")] : ok \in BOOLEAN }

\* Container::new
ContainerStart ==
    /\ ct_id = None
    /\ ct_owned = TRUE
    /\ ct_log = <<>>
    /\ ct_call = [fn |-> "none"]
    /\ ct_ret = Pending
    /\ ct_calls = 0

ContainerFrame ==
    UNCHANGED <<order_vars, sub_state, pe_state, df_state, vol_state, cfg_state,
                mem_state, res_state, dp_state, nw_state>>

\* a call on the object the caller still owns
CanCall == ct_owned /\ ct_calls < MaxCalls

Returned(fn, o) ==
    /\ ct_log' = o.log
    /\ ct_id' = o.id
    /\ ct_ret' = o.ret
    /\ ct_call' = Call(fn)
    /\ ct_calls' = ct_calls + 1

ContainerCreate ==
    /\ CanCall
    /\ \E o \in CreateOutcomes(ct_log, ct_id) : Returned("create", o)
    /\ UNCHANGED ct_owned
    /\ ContainerFrame

ContainerStartCall ==
    /\ CanCall
    /\ \E wait_for_exit \in BOOLEAN :
         \E o \in StartOutcomes(ct_log, ct_id, wait_for_exit) : Returned("start", o)
    /\ UNCHANGED ct_owned
    /\ ContainerFrame

ContainerStop ==
    /\ CanCall
    /\ \E o \in StopOutcomes(ct_log, ct_id) : Returned("stop", o)
    /\ UNCHANGED ct_owned
    /\ ContainerFrame

ContainerWait ==
    /\ CanCall
    /\ \E o \in WaitOutcomes(ct_log, ct_id) : Returned("wait", o)
    /\ UNCHANGED ct_owned
    /\ ContainerFrame

\* remove takes the object by value: no call can follow it
ContainerRemove ==
    /\ CanCall
    /\ \E o \in RemoveOutcomes(ct_log, ct_id) : Returned("remove", o)
    /\ ct_owned' = FALSE
    /\ ContainerFrame

ContainerInit ==
    /\ ContainerStart
    /\ OrderIdle
    /\ SubIdle
    /\ PeIdle
    /\ DfIdle
    /\ VolIdle
    /\ CfgIdle
    /\ MemIdle
    /\ ResIdle
    /\ DeployIdle
    /\ NetworkIdle

ContainerNext ==
    ContainerCreate \/ ContainerStartCall \/ ContainerStop \/ ContainerWait
        \/ ContainerRemove

ContainerSpec == ContainerInit /\ [][ContainerNext]_vars

(***************************************************************************)
(* The depends_on graph, defined without the resolver                      *)
(***************************************************************************)
Succ(svc, n) == IF n \in DOMAIN svc THEN Range(svc[n].depends_on) ELSE {}

RECURSIVE Closure(_, _, _)
Closure(svc, S, k) ==
    IF k = 0 THEN S
    ELSE Closure(svc, S \cup UNION {Succ(svc, x) : x \in S}, k - 1)

\* the names reachable from n along one or more depends_on edges
ReachPlus(svc, n) == Closure(svc, Succ(svc, n), Cardinality(ServiceNames))

HasCycle(svc) == \E n \in DOMAIN svc : n \in ReachPlus(svc, n)

\* d occurs in order at a strictly smaller index than s
Before(order, d, s) ==
    \E i, j \in 1..Len(order) : i < j /\ order[i] = d /\ order[j] = s

\* C1: for an acyclic depends_on graph resolve_service_order returns Ok(order)
\* and every dependency d of every service s occurs in order before s.
C1_DepsBeforeDependents ==
    (ro_pc = "done" /\ ~HasCycle(services)) =>
        /\ ret.tag = "Ok"
        /\ \A s \in DOMAIN services :
             \A d \in Range(services[s].depends_on) : Before(ret.order, d, s)

\* a finished run on a map where a depends on b and c, and b on c
C1_Witness ==
    /\ ro_pc = "done"
    /\ ret.tag = "Ok"
    /\ DOMAIN services = ServiceNames
    /\ services["a"].depends_on = <<"b", "c">>
    /\ services["b"].depends_on = <<"c">>
    /\ ret.order = <<"c", "b", "a">>

\* C2: the returned order is a permutation of the declared service names,
\* also when a depends_on entry names a service that is not declared.
C2_PermutationOfDeclared ==
    (ro_pc = "done" /\ ret.tag = "Ok") =>
        /\ Range(ret.order) = DOMAIN services
        /\ Len(ret.order) = Cardinality(DOMAIN services)

\* C3: the circular-dependency error is returned exactly when the depends_on
\* graph has a directed cycle (a self-dependency included); a shared
\* dependency or one listed twice is no cycle.
C3_CycleErrorIffCycle ==
    ro_pc = "done" =>
        /\ (ret.tag = "Err") <=> HasCycle(services)
        /\ ret.tag = "Err" => ret.msg = CircularMsg

\* a finished run that reported the cycle a -> b -> a
C3_Witness ==
    /\ ro_pc = "done"
    /\ ret.tag = "Err"
    /\ {"a", "b"} \subseteq DOMAIN services
    /\ services["a"].depends_on = <<"b">>
    /\ services["b"].depends_on = <<"a">>

(***************************************************************************)
(* The Dockerfile parser: what a pass returns, and the claims about it     *)
(***************************************************************************)
\* the result of the running pass
CurRet == IF df_pass = 1 THEN df_ret ELSE df_again

Last(s) == s[Len(s)]

NotFatal == [fatal |-> FALSE]

RECURSIVE BadPort(_)
\* the first port[/proto] token whose port is no number a u16 holds
BadPort(tokens) ==
    IF tokens = <<>> THEN NotFatal
    ELSE LET port == SplitChar(Head(tokens), "/")[1]
         IN  IF Len(port) = 1 /\ port[1] \in NumberWords
                /\ NumberValue(port[1]) <= U16Max
             THEN BadPort(Tail(tokens))
             ELSE [fatal |-> TRUE, kind |-> "InvalidPortNumber", token |-> port]

RECURSIVE Fatal(_)
\* the fatal conditions the claim names, read off the text of a logical line
\* KEYWORD ARGS: a keyword outside the known set, and an EXPOSE port that is
\* no number; the argument of ONBUILD is a line of its own
Fatal(line) ==
    LET parts   == SplitN2(line, SP)
        keyword == to_uppercase(parts[1])
        args    == Trim(parts[2])
    IN  IF Len(parts) # 2 THEN NotFatal
        ELSE IF Len(keyword) # 1 \/ keyword \notin {<<c>> : c \in KnownCommands}
        THEN [fatal |-> TRUE, kind |-> "UnknownCommand", token |-> keyword]
        ELSE IF keyword = <<"ONBUILD">> /\ args # <<>> THEN Fatal(args)
        ELSE IF keyword = <<"EXPOSE">> THEN BadPort(SplitWhitespace(args))
        ELSE NotFatal

C8_RoundTrip ==
    (df_pass = 2 /\ df_pc = "done") =>
        /\ df_again.tag = "Ok"
        /\ df_again.config = df_ret.config

\* the parts of an ONBUILD line
IsOnbuild(line) ==
    /\ Len(SplitN2(line, SP)) = 2
    /\ to_uppercase(SplitN2(line, SP)[1]) = <<"ONBUILD">>

Inner(line) == Trim(SplitN2(line, SP)[2])

\* C9: when the line dispatched last is ONBUILD <inner> and the dispatcher
\* accepts <inner>, then <inner> alone produces a single instruction and the
\* document gained exactly one Onbuild wrapping it, base_image untouched;
\* otherwise the parse has failed
C9_OnbuildWrapsInner ==
    (dispatched # <<>> /\ IsOnbuild(Last(dispatched))) =>
        LET r == parse_command(EmptyConfig, Inner(Last(dispatched)))
        IN  IF Inner(Last(dispatched)) # <<>> /\ r.tag = "Ok"
            THEN /\ Len(r.config.commands) = 1
                 /\ config = Push(before, [type |-> "Onbuild",
                                           command |-> r.config.commands[1]])
            ELSE CurRet.tag = "Err"

\* C10: no Onbuild of a returned document wraps an Onbuild
C10_NoNestedOnbuild ==
    df_ret.tag = "Ok" =>
        \A i \in 1..Len(df_ret.config.commands) :
            df_ret.config.commands[i].type = "Onbuild" =>
                df_ret.config.commands[i].command.type # "Onbuild"

\* the keyword and the arguments of a logical line, as the dispatcher splits it
Keyword(line) ==
    IF Len(SplitN2(line, SP)) = 2 THEN to_uppercase(SplitN2(line, SP)[1]) ELSE <<>>

Args(line) == IF Len(SplitN2(line, SP)) = 2 THEN Trim(SplitN2(line, SP)[2]) ELSE <<>>

\* the positional tokens of COPY arguments: the tokens without a leading
\* --chown=<owner> token
Positional(args) ==
    LET tokens == SplitWhitespace(args)
    IN  IF tokens # <<>> /\ StartsWith(tokens[1], ChownFlag) THEN Tail(tokens)
        ELSE tokens

\* C11: when the line dispatched last is a COPY line with fewer than two
\* positional tokens, the pass has returned the error 'COPY requires source
\* and destination': no panic, and no Copy instruction added
C11_CopyTooFewIsError ==
    (dispatched # <<>> /\ Keyword(Last(dispatched)) = <<"COPY">>
        /\ Len(Positional(Args(Last(dispatched)))) < 2) =>
        /\ CurRet = CmdErr("CopyRequiresSourceAndDestination", <<>>)
        /\ config = before

\* C12: when the line dispatched last is a HEALTHCHECK line other than
\* HEALTHCHECK NONE, its tokens are read as flags up to CMD: with CMD found
\* the document gained exactly one Healthcheck whose command is the tokens
\* after CMD and whose flags are the values given before it; without CMD the
\* pass failed with 'HEALTHCHECK must include CMD'; a flag error failed it
\* with the error of that flag
C12_HealthcheckEmitted ==
    (dispatched # <<>> /\ Keyword(Last(dispatched)) = <<"HEALTHCHECK">>
        /\ Args(Last(dispatched)) # <<"NONE">>) =>
        LET h == HealthScan(SplitWhitespace(Args(Last(dispatched))), 1, NoFlags)
        IN  CASE h.tag = "Cmd" ->
                   config = Push(before,
                                 [type |-> "Healthcheck",
                                  command |-> h.cmd_parts,
                                  interval |-> h.flags.interval,
                                  timeout |-> h.flags.timeout,
                                  start_period |-> h.flags.start_period,
                                  retries |-> h.flags.retries])
              [] h.tag = "NoCmd" ->
                   CurRet = CmdErr("HealthcheckMustIncludeCmd", <<>>)
              [] h.tag = "Err" -> CurRet = CmdErr(h.kind, h.token)

\* the physical lines the running pass has gone through
Consumed ==
    SubSeq(df_lines, 1, IF CurRet.tag \in {"Err", "Panic"} THEN df_i ELSE df_i - 1)

\* the physical lines that are neither blank nor a comment, trimmed
Kept(lines) ==
    SelectSeq([i \in 1..Len(lines) |-> Trim(lines[i])],
              LAMBDA l : l # <<>> /\ Head(l) # "#")

RECURSIVE Group(_, _, _)
\* the logical lines of kept lines: each run of lines ending in a backslash
\* with the line that ends it, the backslashes removed and the parts joined
\* by a space; run holds the parts of the run that is open
Group(kept, run, out) ==
    IF kept = <<>> THEN out
    ELSE LET l == Head(kept)
         IN  IF l[Len(l)] = BS
             THEN Group(Tail(kept), Append(run, SubSeq(l, 1, Len(l) - 1)), out)
             ELSE Group(Tail(kept), <<>>,
                        Append(out, JoinWith(Append(run, l), <<SP>>)))

RECURSIVE InstructionsOf(_)
\* the instructions the logical lines produce, each line dispatched alone
InstructionsOf(logical) ==
    IF logical = <<>> THEN <<>>
    ELSE LET r == parse_command(EmptyConfig, Head(logical))
         IN  (IF r.tag = "Ok" THEN r.config.commands ELSE <<>>)
                 \o InstructionsOf(Tail(logical))

\* C13: the lines dispatched are exactly the logical lines of the physical
\* lines gone through, blank lines and comments left out, in their order;
\* and the instructions of the document are those of the logical lines, in
\* the order of the lines
C13_LogicalLines ==
    df_pc # "idle" =>
        /\ dispatched = Group(Kept(Consumed), <<>>, <<>>)
        /\ config.commands = InstructionsOf(dispatched)

\* a line ending in a backslash and the line after it were gone through and
\* dispatched as one logical line, which made one instruction
C13_Witness ==
    /\ df_pass = 1
    /\ df_pc = "render"
    /\ df_i = 3
    /\ Continued(Trim(df_lines[1]))
    /\ ~Skipped(Trim(df_lines[1]))
    /\ dispatched = <<SubSeq(Trim(df_lines[1]), 1, Len(Trim(df_lines[1])) - 1)
                        \o <<SP>> \o df_lines[2]>>
    /\ Len(config.commands) = 1

\* C14: a short string source:target or source:target:<mode> whose source
\* is an absolute or ./-relative path is read as Bind of that source and
\* target, read_only exactly when the mode is ro; with any other source it
\* is read as Named
C14_ShortFormKinds ==
    (vol_input.form = "String" /\ vol_pc # "input"
        /\ Len(SplitChar(vol_input.text, ":")) \in {2, 3}) =>
        LET parts == SplitChar(vol_input.text, ":")
        IN  IF parts[1] # <<>> /\ (parts[1][1] = "/" \/
                                   (Len(parts[1]) >= 2 /\ parts[1][1] = "."
                                    /\ parts[1][2] = "/"))
            THEN vol_value = VolOk(Bind(parts[1], parts[2],
                                        Len(parts) = 3 /\ parts[3] = <<"ro">>))
            ELSE vol_value.tag = "Ok" /\ vol_value.value.type = "Named"

\* C16: a value read from the short or the long syntax is written as a
\* short string, and reading that string gives the value back
C16_VolumeRoundTrip ==
    (vol_pc = "done" /\ vol_input.form \in {"String", "Long"}
        /\ vol_value.tag = "Ok") =>
        /\ vol_text.form = "String"
        /\ vol_again = vol_value

\* the first Named volume of list whose volume name is name
FirstReference(list, name) ==
    list[CHOOSE i \in 1..Len(list) :
             /\ list[i].type = "Named" /\ VolumeName(list[i].name) = name
             /\ \A j \in 1..(i - 1) :
                    ~(list[j].type = "Named" /\ VolumeName(list[j].name) = name)]

\* C15: after collect_volumes every Named volume of every service has its
\* volume name as a key of the top-level map; the entries the map had are
\* as they were; and a name the map did not have holds the first reference
\* to it, in the order the services were gone through
C15_CollectVolumes ==
    cfg_pc \in {"collected", "done"} =>
        LET list == ValuesInOrder(cfg_services, cfg_order)
        IN  /\ \A i \in 1..Len(list) :
                   list[i].type = "Named" =>
                       VolumeName(list[i].name) \in DOMAIN cfg_volumes
            /\ \A k \in DOMAIN cfg_written : cfg_volumes[k] = cfg_written[k]
            /\ \A i \in 1..Len(list) :
                   (list[i].type = "Named"
                        /\ VolumeName(list[i].name) \notin DOMAIN cfg_written) =>
                       cfg_volumes[VolumeName(list[i].name)]
                           = FirstReference(list, VolumeName(list[i].name))

\* the named-volume name or the bind-mount target of a service volume
NameOrTarget(v) == IF v.type = "Bind" THEN v.target ELSE VolumeName(v.name)

\* C17: validate_required_volumes(required) returns Ok exactly when every
\* service has, for every required name, a volume whose named-volume name
\* or bind-mount target is that name
C17_RequiredVolumes ==
    (cfg_pc = "done" /\ cfg_call.fn = "validate_required_volumes") =>
        (cfg_ret.tag = "Ok" <=>
            \A s \in DOMAIN cfg_services : \A n \in Range(cfg_call.arg) :
                \E i \in 1..Len(VolumesOf(cfg_services[s])) :
                    NameOrTarget(VolumesOf(cfg_services[s])[i]) = n)

\* C18: validate_required_env_vars(vars) returns Ok exactly when vars is
\* empty or every service has an environment map with every name of vars
C18_RequiredEnvVars ==
    (cfg_pc = "done" /\ cfg_call.fn = "validate_required_env_vars") =>
        (cfg_ret.tag = "Ok" <=>
            \/ cfg_call.arg = <<>>
            \/ \A s \in DOMAIN cfg_services :
                   /\ cfg_services[s].environment.some
                   /\ Range(cfg_call.arg) \subseteq
                          DOMAIN cfg_services[s].environment.map)

\* a service without an environment map, beside one that has every name,
\* made the call with a non-empty list fail
C18_Witness ==
    /\ cfg_pc = "done"
    /\ cfg_call = [fn |-> "validate_required_env_vars", arg |-> <<"L", "K">>]
    /\ DOMAIN cfg_services = CfgNames
    /\ ~cfg_services["a"].environment.some
    /\ cfg_services["b"].environment.some
    /\ DOMAIN cfg_services["b"].environment.map = {"K", "L"}
    /\ cfg_ret = CfgErr("NoEnvironment", "a", <<>>)

\* the name inside the first ${...} of a path
ReferenceName(path) ==
    LET open  == FindFrom(path, <<"$", "{">>, 1)
        close == FindFrom(path, <<"}">>, open)
    IN  SubSeq(path, open + 2, close - 1)

\* name is defined in a layer: the process environment, a common file, an
\* env file on disk or the inline environment of a service
DefinedInALayer(name) ==
    \/ name \in DOMAIN pe_sys
    \/ \E i \in 1..Len(pe_common) : name \in DOMAIN pe_common[i]
    \/ \E f \in DOMAIN pe_fs : name \in DOMAIN pe_fs[f]
    \/ \E s \in DOMAIN pe_input :
           pe_input[s].environment.some /\ name \in DOMAIN pe_input[s].environment.map

\* C19: when a service has an env_file path with a ${VAR} reference and no
\* ':-' default, and VAR is defined in no layer, process_environment returns
\* an error that names VAR, whether or not the path with VAR left out is a
\* file
C19_MissingPathVarNamed ==
    pe_pc = "done" =>
        \A s \in DOMAIN pe_input :
            \A i \in 1..Len(pe_input[s].env_file) :
                LET path == pe_input[s].env_file[i]
                IN  (Contains(path, <<"$", "{">>) /\ ~Contains(path, <<":", "-">>)
                        /\ ~DefinedInALayer(ReferenceName(path))) =>
                        /\ pe_ret.tag = "Err"
                        /\ pe_ret.err.kind = "MissingEnvFileVar"
                        /\ pe_ret.err.var = ReferenceName(path)

\* the inputs of the form: a run of digits and one unit letter K, M or G
IsMemoryForm(t) ==
    /\ Len(t) >= 2
    /\ t[Len(t)] \in {"K", "M", "G"}
    /\ \A i \in 1..(Len(t) - 1) : t[i] \in Digits

UnitPower(c) == CASE c = "K" -> 1 [] c = "M" -> 2 [] c = "G" -> 3

\* C20: parse_memory_string returns Ok(n * 1024^k), the exact product, for a
\* decimal integer n followed by K, M or G, and an InvalidResourceLimit
\* error value for every other string
C20_MemoryString ==
    mem_pc = "done" =>
        IF IsMemoryForm(mem_input)
        THEN mem_ret =
                 MemOk(I64(FALSE,
                           TimesKilo(Normal(DecimalLimbs(
                                         SubSeq(mem_input, 1, Len(mem_input) - 1),
                                         <<>>)),
                                     UnitPower(mem_input[Len(mem_input)]))))
        ELSE mem_ret.tag = "Err" /\ mem_ret.err.variant = "InvalidResourceLimit"

\* the field of a document of ResDocs that holds the text
ResField(doc) ==
    IF DOMAIN doc.services = {} THEN doc.volumes["data"].driver.value
    ELSE LET service == doc.services["web"]
         IN  IF service.environment.some THEN service.environment.map["K"]
             ELSE IF service.volumes.value[1].type = "Named"
                  THEN service.volumes.value[1].name
                  ELSE service.volumes.value[1].source

\* C21: resolve_env depends only on the document and the vars map: two runs
\* on the same document and map give the same resolved document, whatever
\* the process environments of the two runs
C21_ResolveEnvIgnoresProcessEnv ==
    res_pc = "done" => res_out[1] = res_out[2]

\* C26: with an empty process environment resolve_env_value yields the same
\* string as substitute_env_vars, for every vars map
C26_ResolveMatchesSubstitute ==
    (res_pc \in {"second", "done"} /\ res_envs[1] = EmptyMap) =>
        ResField(res_out[1]) = substitute_env_vars(ResField(res_doc), res_vars)

\* the nodes of the frames of the recursion stack
OnStack == {stack[i].node : i \in 1..Len(stack)}

\* the markers while resolve_service_order runs: no node is in both sets, the
\* visiting set is the recursion stack with every node on it once, and
\* result holds the visited names, each once
MarkersConsistent ==
    /\ temp_visited \cap visited = {}
    /\ ro_pc = "loop" => (temp_visited = OnStack /\ Cardinality(OnStack) = Len(stack))
    /\ (ro_pc = "done" /\ ret.tag = "Ok") => temp_visited = {}
    /\ Range(result) = visited
    /\ Len(result) = Cardinality(visited)

\* one step of the markers: a node enters the visiting set only when it is in
\* neither set, leaves it only into the visited set, never leaves the visited
\* set, and is appended to result in the step in which it becomes visited
MarkerStep ==
    /\ \A n \in temp_visited' \ temp_visited : n \notin visited
    /\ \A n \in temp_visited \ temp_visited' : n \in visited'
    /\ visited \subseteq visited'
    /\ \A n \in visited' \ visited :
         n \in temp_visited /\ result' = Append(result, n)
    /\ result' # result => visited' # visited

\* C25: throughout resolve_service_order every node is unvisited, visiting or
\* visited and moves only unvisited -> visiting -> visited; the visiting set
\* is the recursion stack and is empty when Ok is returned; a name is appended
\* to result exactly once, when it becomes visited
C25_MarkerStates == []MarkersConsistent /\ [][MarkerStep]_vars

\* the resolver inside visit(b) called from visit(a), with c already visited
C25_Witness ==
    /\ ro_pc = "loop"
    /\ Len(stack) = 2
    /\ stack[1].node = "a"
    /\ stack[2].node = "b"
    /\ temp_visited = {"a", "b"}
    /\ visited = {"c"}
    /\ result = <<"c">>

\* C30: resolve_service_order terminates on every service map, cyclic or not,
\* with an order or the cycle error, and expands the dependency list of each
\* name at most once
C30_TerminatesExpandingOnce ==
    /\ <>(ro_pc = "done")
    /\ [](ro_pc = "done" => ret.tag \in {"Ok", "Err"})
    /\ [](\A n \in ServiceNames : expanded[n] <= 1)

\* a finished run on the diamond a -> b, a -> c, b -> c: c was reached twice
\* and expanded once
C30_Witness ==
    /\ ro_pc = "done"
    /\ ret.tag = "Ok"
    /\ DOMAIN services = ServiceNames
    /\ services["a"].depends_on = <<"b", "c">>
    /\ services["b"].depends_on = <<"c">>
    /\ expanded = [n \in ServiceNames |-> 1]

\* C27: no instruction text is discarded by the line joiner: when parse
\* returns Ok, every physical line that is neither blank nor a comment is
\* part of a logical line that was dispatched, so the last such line does not
\* end a run that is still open and nothing is left in current_command
C27_NoTextDiscarded ==
    (df_pass = 1 /\ df_pc = "render") =>
        /\ Kept(df_input) # <<>> => ~Continued(Last(Kept(df_input)))
        /\ current_command = <<>>

\* the index of the first request op on name that succeeded, 0 if none
FirstDone(op, name) ==
    IF \E i \in 1..Len(dp_log) : dp_log[i] = Request(op, name, TRUE)
    THEN CHOOSE i \in 1..Len(dp_log) :
             /\ dp_log[i] = Request(op, name, TRUE)
             /\ \A j \in 1..(i - 1) : dp_log[j] # Request(op, name, TRUE)
    ELSE 0

\* the index of the first request to create the container of name, 0 if none
FirstAsked(name) ==
    IF \E i \in 1..Len(dp_log) : dp_log[i].op = "create_container" /\ dp_log[i].name = name
    THEN CHOOSE i \in 1..Len(dp_log) :
             /\ dp_log[i].op = "create_container" /\ dp_log[i].name = name
             /\ \A j \in 1..(i - 1) :
                  ~(dp_log[j].op = "create_container" /\ dp_log[j].name = name)
    ELSE 0

\* C22: the services are deployed in dependency order: for every depends_on
\* edge between two declared services, the container of the dependency was
\* created and started before the container of the dependent is created
C22_DeployInDependencyOrder ==
    \A s \in DOMAIN services :
        \A d \in Range(services[s].depends_on) \cap DOMAIN services :
            FirstAsked(s) # 0 =>
                /\ FirstDone("create_container", d) # 0
                /\ FirstDone("create_container", d) < FirstDone("start_container", d)
                /\ FirstDone("start_container", d) < FirstAsked(s)

\* a finished deployment of a -> b -> c: c, b and a were created and started
\* in this order
C22_Witness ==
    /\ dp_pc = "done"
    /\ dp_ret.tag = "Ok"
    /\ DOMAIN services = ServiceNames
    /\ services["a"].depends_on = <<"b">>
    /\ services["b"].depends_on = <<"c">>
    /\ [i \in 1..Len(dp_log) |-> dp_log[i].name]
         = <<"compose_network", "c", "c", "b", "b", "a", "a">>

\* C28: when the depends_on graph has a cycle, the circular-dependency error
\* is returned and no network, volume or container has been created
C28_CycleCreatesNothing ==
    (dp_pc = "done" /\ HasCycle(services)
        /\ dp_ret = [tag |-> "Err", variant |-> "ValidationError", msg |-> CircularMsg])
        => \A i \in 1..Len(dp_log) : ~dp_log[i].ok

\* C29: when the inline environment of a service has a value with a ${VAR}
\* reference and no ':-' default, and VAR is defined in no layer,
\* process_environment returns a validation error
C29_MissingInlineVarIsError ==
    pe_pc = "done" =>
        \A s \in DOMAIN pe_input :
            pe_input[s].environment.some =>
                \A k \in DOMAIN pe_input[s].environment.map :
                    LET value == pe_input[s].environment.map[k]
                    IN  (Contains(value, <<"$", "{">>) /\ ~Contains(value, <<":", "-">>)
                            /\ ~DefinedInALayer(ReferenceName(value))) =>
                            pe_ret.tag = "Err"

\* C23: for every max_retries, create_network_with_retry makes at most
\* max_retries attempts, stops at the first that succeeds, returns Ok exactly
\* when an attempt succeeded, and returns the error of the last attempt when
\* max_retries attempts have failed
C23_RetryContract ==
    nw_pc = "done" =>
        /\ Len(nw_log) <= max_retries
        /\ \A i \in 1..(Len(nw_log) - 1) : ~nw_log[i]
        /\ (nw_ret = NwOk) <=> (\E i \in 1..Len(nw_log) : nw_log[i])
        /\ (Len(nw_log) = max_retries /\ \A i \in 1..Len(nw_log) : ~nw_log[i])
               => nw_ret = NwErr(max_retries)

\* the requests other than create
NeedsId == {"start", "stop", "wait", "remove"}

\* C24: no start, stop, wait or remove request is sent while the container
\* has no id: every such request is sent for an id that a create request
\* before it was given; start on a container not yet created creates it first
\* and sends the start request only if that succeeded; stop, wait and remove
\* on a container without an id return Ok and send nothing
C24_NoRequestWithoutId ==
    /\ \A i \in 1..Len(ct_log) :
         ct_log[i].op \in NeedsId =>
             /\ ct_log[i].id.some
             /\ \E j \in 1..(i - 1) : ct_log[j] = Sent("create", ct_log[i].id, TRUE)
    /\ (ct_call.fn = "start" /\ ~ct_call.had_id) =>
         /\ Len(ct_log) > ct_call.sent_before
         /\ ct_log[ct_call.sent_before + 1].op = "create"
         /\ IF ct_log[ct_call.sent_before + 1].ok
            THEN /\ Len(ct_log) > ct_call.sent_before + 1
                 /\ ct_log[ct_call.sent_before + 2].op = "start"
            ELSE /\ Len(ct_log) = ct_call.sent_before + 1
                 /\ ct_ret = CtErr("create")
    /\ (ct_call.fn \in {"stop", "wait", "remove"} /\ ~ct_call.had_id) =>
         /\ ct_ret = CtOk
         /\ Len(ct_log) = ct_call.sent_before

\* a first call on the new container sent nothing, then start created the
\* container, started it and waited for it
C24_Witness ==
    /\ ct_calls = 2
    /\ ct_call.fn = "start"
    /\ ~ct_call.had_id
    /\ ct_ret = CtOk
    /\ ct_log = <<Sent("create", Some(1), TRUE), Sent("start", Some(1), TRUE),
                  Sent("wait", Some(1), TRUE)>>

====
